---- MODULE Spec2Model ----
(***************************************************************************)
(* Model of the QQ -> Telegram relay of @napgram/feature-kit               *)
(* (ForwardFeature): the serialized Telegram send queue with minimum send  *)
(* interval and FLOOD_WAIT retry, the 30 s duplicate suppression of        *)
(* handleQQMessage, the policy checks of the handler, the poke relay, the  *)
(* Telegram-side handler and the /mode command.                            *)
(*                                                                         *)
(* Time is the value of Date.now() in milliseconds.  A timer created by    *)
(* setTimeout fires when the clock reaches its deadline: the clock never   *)
(* advances past a pending deadline (Advance, JumpToDeadline).             *)
(*                                                                         *)
(* SpecQueue: the send queue under any sequence of enqueueTelegramSend     *)
(* calls, every error shape, a freely advancing clock (FairSpecQueue adds  *)
(* the event loop's fairness).  Spec: the relay in production, message and *)
(* poke handlers feeding the queue; its sends fail with non-flood errors   *)
(* and its clock moves from deadline to deadline.                          *)
(*                                                                         *)
(* SpecHandler, SpecFlood, SpecMode: the 30 s that follow the first event  *)
(* (no timer of the duplicate suppression comes due).  SpecHandler:        *)
(* handleQQMessage with every outcome of getChat, resolveQQReply, the send *)
(* and saveMessage, the correlation store and the metrics.  SpecFlood: the *)
(* same handler over sends that meet FLOOD_WAIT.  SpecMode: messages and   *)
(* pokes of both directions while /mode commands change the pairs' modes.  *)
(***************************************************************************)
EXTENDS Integers, Sequences, FiniteSets, TLC

(* ---- bounds of the model ---- *)
MaxTasks == 2          \* direct enqueueTelegramSend calls (SpecQueue)
MaxEvents == 2         \* inbound events delivered, messages and pokes together (Spec)
MaxTime == 800         \* the clock advances freely up to here, then only to deadlines
FreeStep == 400        \* granularity of the free advance of the clock

(* ---- program constants ---- *)
DEFAULT_TG_SEND_INTERVAL_MS == 350
FLOOD_WAIT_BUFFER_MS == 2000
maxAttempts == 3
DEDUP_TTL_MS == 30 * 1000

Null == 0 - 1          \* JavaScript null / undefined
NoError == [kind |-> "none", digits |-> <<>>]

VARIABLES
  now,                 \* Date.now()
  nodeEnv,             \* process.env.NODE_ENV
  telegramSendQueue,   \* [chain, nextAvailableAt]; chain = index of the task whose run it follows
  tasks,               \* every enqueued send, in enqueue order
  processedMsgIds,     \* ForwardFeature.processedMsgIds
  dedupTimers,         \* pending setTimeout(30 s) callbacks: [id, at]
  calls,               \* invocations of handleQQMessage, in delivery order
  pokes,               \* invocations of handlePokeEvent, in delivery order
  forwardMap,          \* instance.forwardPairs: QQ room -> pair record (NoPair: unbound)
  env_FORWARD_MODE,    \* env.FORWARD_MODE
  mapper,              \* the rows written by mapper.saveMessage, in the order written
  performanceMonitor,  \* [messages, errors]: recordMessage and recordError calls so far
  warnings,            \* pair id -> number of "Invalid ignoreRegex" warnings logged
  tgCalls,             \* invocations of handleTgMessage, in delivery order
  modeCmds,            \* invocations of handleModeCommand, in delivery order
  modeLog,             \* QQ room -> the forwardMode values its pair object has held, in order
  forwardPairs,        \* the records of the ForwardMap the bind operations act on
  bindCalls,           \* invocations of CommandsFeature.handleTgMessage with a binding state
  addLog,              \* the calls of forwardMap.add so far: arguments, directory, result
  stateManager,        \* the binding state of the sender in the chat, and the prompts so far
  napcat,              \* the last call of toNapCat: [message, segments]
  populate,            \* the call of populateAtDisplayNames: message, loop index, nameCache
  permissionOptions,   \* the options PermissionService was constructed with
  userPermissions,     \* the UserPermissions table: user id -> the row of the user
  permissionCache,     \* PermissionService.permissionCache: user id -> cached entry
  permissionAuditLogs, \* the rows of the PermissionAuditLogs table, in the order written
  permCalls,           \* the calls of the permission service and of the web route
  cache,               \* TTLCache.cache: key -> [value, expires]
  cacheOps,            \* the calls made on the TTLCache, with what each found and returned
  GatewayRuntime,      \* the static fields of GatewayRuntime, and the objects constructed
  gatewayCalls,        \* the calls of the static methods of GatewayRuntime
  buckets,             \* createCooldown: key -> the time until which the key is denied
  cooldownCalls,       \* the calls of the handler withCooldown returns
  guardCall,           \* the latest call of the handler withCommandGuards returns
  db_forwardPair,      \* the forwardPair table: pair id -> the modes stored in the row
  commands,            \* CommandsFeature: the permission plugin and the latest command call
  tgSenders,           \* resolveTgSenderName: tgSenderNameCache, tgSenderNameInflight, the lookups made and the calls
  consumerState        \* consumer(fn, time): tasks, timer, the intervals set and not cleared, the calls run

vars == <<now, nodeEnv, telegramSendQueue, tasks, processedMsgIds, dedupTimers, calls, pokes,
          forwardMap, env_FORWARD_MODE, mapper, performanceMonitor, warnings, tgCalls, modeCmds,
          modeLog, forwardPairs, bindCalls, addLog, stateManager, napcat, populate,
          permissionOptions, userPermissions, permissionCache, permissionAuditLogs, permCalls,
          cache, cacheOps, GatewayRuntime, gatewayCalls, buckets, cooldownCalls,
          guardCall,
          db_forwardPair,
          commands,
          tgSenders,
          consumerState>>
bindVars == <<forwardPairs, bindCalls, addLog, stateManager>>
permVars == <<permissionOptions, userPermissions, permissionCache, permissionAuditLogs,
              permCalls>>
cacheVars == <<cache, cacheOps>>
gatewayVars == <<GatewayRuntime, gatewayCalls>>
cooldownVars == <<buckets, cooldownCalls>>
guardVars == <<guardCall>>
dbVars == <<db_forwardPair>>
commandVars == <<commands>>
senderVars == <<tgSenders>>
consumerVars == <<consumerState>>
serviceVars == <<bindVars, napcat, populate, permVars, cacheVars, gatewayVars, cooldownVars,
    guardVars,
    dbVars,
    commandVars,
    senderVars,
    consumerVars>>
envVars == <<nodeEnv, env_FORWARD_MODE>>
queueVars == <<telegramSendQueue, tasks>>
sideVars == <<mapper, performanceMonitor, warnings, tgCalls, modeCmds, modeLog>>
relayVars == <<processedMsgIds, dedupTimers, calls, pokes, forwardMap, sideVars>>
\* everything the services beside the relay leave alone
relayState == <<envVars, queueVars, relayVars>>
\* what the steps of each service leave alone
exceptBind == <<now, relayState, napcat, populate, permVars, cacheVars, gatewayVars, cooldownVars,
    guardVars,
    dbVars,
    commandVars,
    senderVars,
    consumerVars>>
exceptConvert == <<now, relayState, bindVars, populate, permVars, cacheVars, gatewayVars, cooldownVars,
    guardVars,
    dbVars,
    commandVars,
    senderVars,
    consumerVars>>
exceptPopulate == <<now, relayState, bindVars, napcat, permVars, cacheVars, gatewayVars, cooldownVars,
    guardVars,
    dbVars,
    commandVars,
    senderVars,
    consumerVars>>
exceptPermission == <<relayState, bindVars, napcat, populate, cacheVars, gatewayVars, cooldownVars,
    guardVars,
    dbVars,
    commandVars,
    senderVars,
    consumerVars>>
exceptGateway == <<now, relayState, bindVars, napcat, populate, permVars, cacheVars, cooldownVars,
    guardVars,
    dbVars,
    commandVars,
    senderVars,
    consumerVars>>
exceptCooldown == <<relayState, bindVars, napcat, populate, permVars, cacheVars, gatewayVars,
    guardVars,
    dbVars,
    commandVars,
    senderVars,
    consumerVars>>
exceptCache == <<relayState, bindVars, napcat, populate, permVars, gatewayVars, cooldownVars,
    guardVars,
    dbVars,
    commandVars,
    senderVars,
    consumerVars>>
exceptGuard == <<now, relayState, bindVars, napcat, populate, permVars, cacheVars, gatewayVars, cooldownVars,
    dbVars,
    commandVars,
    senderVars,
    consumerVars>>
\* the services db.update of handleModeCommand leaves alone
exceptModeDb == <<bindVars, napcat, populate, permVars, cacheVars, gatewayVars, cooldownVars, guardVars,
    commandVars,
    senderVars,
    consumerVars>>
exceptCommand == <<now, relayState, bindVars, napcat, populate, permVars, cacheVars, gatewayVars, cooldownVars, guardVars, dbVars,
    senderVars,
    consumerVars>>
exceptSender == <<relayState, bindVars, napcat, populate, permVars, cacheVars, gatewayVars, cooldownVars, guardVars, dbVars, commandVars,
    consumerVars>>
exceptConsumer == <<now, relayState, bindVars, napcat, populate, permVars, cacheVars, gatewayVars, cooldownVars, guardVars, dbVars, commandVars, senderVars>>

(* ---- errors a send can throw: the message text, as the two regexes see it ---- *)
\* kind: the text before the digits ("FLOOD_WAIT_" token, "A wait of " prose, or neither);
\* digits: the decimal digits that follow (none: the regex, which asks for \d+, fails)
FloodToken(ds) == [kind |-> "FLOOD_WAIT", digits |-> ds]
WaitProse(ds) == [kind |-> "A wait of", digits |-> ds]
OtherError == [kind |-> "other", digits |-> <<>>]
Errors == {FloodToken(<<5>>), FloodToken(<<0>>), FloodToken(<<>>), WaitProse(<<0, 1>>), OtherError}
\* in the relay specification a send fails with a non-flood error only
RelayErrors == {OtherError}

\* Number("<digits>")
RECURSIVE Number(_)
Number(ds) == IF ds = <<>> THEN 0 ELSE 10 * Number(SubSeq(ds, 1, Len(ds) - 1)) + ds[Len(ds)]

extractFloodWaitSeconds(error) ==
  IF error.kind = "FLOOD_WAIT" /\ error.digits # <<>> THEN Number(error.digits)
  ELSE IF error.kind = "A wait of" /\ error.digits # <<>> THEN Number(error.digits)
  ELSE Null

\* !floodWaitSeconds : null and 0 are both falsy
Falsy(n) == n = Null \/ n = 0

ThrowsOffByOne(floodWaitSeconds, attempt) == Falsy(floodWaitSeconds) \/ attempt > maxAttempts
ThrowsNever(floodWaitSeconds, attempt) == attempt >= maxAttempts

\* executeTelegramSendWithRetry: if (!floodWaitSeconds || attempt >= maxAttempts) throw error
Throws(floodWaitSeconds, attempt) == Falsy(floodWaitSeconds) \/ attempt >= maxAttempts

FloodWaitMsNoBuffer(floodWaitSeconds) == floodWaitSeconds * 1000

\* const waitMs = (floodWaitSeconds * 1000) + FLOOD_WAIT_BUFFER_MS
FloodWaitMs(floodWaitSeconds) == (floodWaitSeconds * 1000) + FLOOD_WAIT_BUFFER_MS

getMinSendIntervalMsInverted == IF nodeEnv = "test" THEN DEFAULT_TG_SEND_INTERVAL_MS ELSE 0

getMinSendIntervalMs == IF nodeEnv = "test" THEN 0 ELSE DEFAULT_TG_SEND_INTERVAL_MS

(* ---- the promise chain ---- *)
Settled(t) == t.state \in {"resolved", "rejected"}

ChainSettledOnFulfilOnly(p) == IF p = 0 THEN TRUE ELSE tasks[p].state = "resolved"

\* queue.chain.then(run, run): run is called once the promise it was chained on has
\* settled, fulfilled or rejected; promise 0 is the initial Promise.resolve()
ChainSettled(p) == IF p = 0 THEN TRUE ELSE Settled(tasks[p])

NextChainStale(chain, k) == chain

\* queue.chain = current.then(() => undefined, () => undefined)
NextChain(chain, k) == k

NewTask(c, chain) ==
  [call |-> c, prev |-> chain, state |-> "queued", wake |-> Null,
   starts |-> <<>>, fails |-> <<>>, settledAt |-> Null,
   result |-> [kind |-> "pending", task |-> 0, attempt |-> 0, error |-> NoError,
               value |-> Null]]

\* enqueueTelegramSend(task) called by invocation c of handleQQMessage (0: a direct call)
enqueueTelegramSend(c) ==
  /\ tasks' = Append(tasks, NewTask(c, telegramSendQueue.chain))
  /\ telegramSendQueue' = [telegramSendQueue EXCEPT !.chain = NextChain(@, Len(tasks) + 1)]

Invoke(t) == [t EXCEPT !.state = "running", !.wake = Null, !.starts = Append(@, now)]

\* run(): reads the clock, sleeps until nextAvailableAt if that is later, else calls the task
RunStart(k) ==
  /\ tasks[k].state = "queued"
  /\ ChainSettled(tasks[k].prev)
  /\ LET waitMs == telegramSendQueue.nextAvailableAt - now IN
       tasks' = [tasks EXCEPT ![k] =
                   IF waitMs > 0
                     THEN [@ EXCEPT !.state = "waitInterval", !.wake = now + waitMs]
                     ELSE Invoke(@)]
  /\ UNCHANGED <<now, envVars, serviceVars, telegramSendQueue, relayVars>>

\* the interval sleep of run() is over: executeTelegramSendWithRetry makes its first attempt
IntervalWake(k) ==
  /\ tasks[k].state = "waitInterval"
  /\ now >= tasks[k].wake
  /\ tasks' = [tasks EXCEPT ![k] = Invoke(@)]
  /\ UNCHANGED <<now, envVars, serviceVars, telegramSendQueue, relayVars>>

\* what a send resolves with: a sent-message descriptor, or nothing
Returns == {"message", "nothing"}

\* the id of the message that send k put into the Telegram chat
SentMsgId(k) == 500 + k

AfterSendAlways(queue, fulfilled) ==
  [queue EXCEPT !.nextAvailableAt = now + getMinSendIntervalMs]

\* run() after await executeTelegramSendWithRetry(task): a result moves nextAvailableAt,
\* an error leaves run() before it does
AfterSend(queue, fulfilled) ==
  IF fulfilled THEN [queue EXCEPT !.nextAvailableAt = now + getMinSendIntervalMs]
  ELSE queue

\* await task() returns: run() stores nextAvailableAt and resolves the caller's promise
\* with the value the task returned
TaskSucceeds(k, ret) ==
  /\ tasks[k].state = "running"
  /\ tasks' = [tasks EXCEPT ![k] =
                 [@ EXCEPT !.state = "resolved", !.settledAt = now,
                           !.result = [kind |-> "ok", task |-> k, attempt |-> Len(tasks[k].starts),
                                         error |-> NoError,
                                         value |-> IF ret = "message" THEN SentMsgId(k)
                                                   ELSE Null]]]
  /\ telegramSendQueue' = AfterSend(telegramSendQueue, TRUE)
  /\ UNCHANGED <<now, envVars, serviceVars, relayVars>>

\* await task() throws error: the catch block of executeTelegramSendWithRetry; an error
\* it throws on ends run()
TaskFails(k, error) ==
  /\ tasks[k].state = "running"
  /\ LET floodWaitSeconds == extractFloodWaitSeconds(error)
         attempt == Len(tasks[k].starts)
         failed == [tasks[k] EXCEPT !.fails = Append(@, [at |-> now, error |-> error])]
     IN /\ tasks' = [tasks EXCEPT ![k] =
                       IF Throws(floodWaitSeconds, attempt)
                         THEN [failed EXCEPT !.state = "rejected", !.settledAt = now,
                                             !.result = [kind |-> "err", task |-> k,
                                                         attempt |-> attempt,
                                                         error |-> error, value |-> Null]]
                         ELSE [failed EXCEPT !.state = "floodSleep",
                                             !.wake = now + FloodWaitMs(floodWaitSeconds)]]
        /\ telegramSendQueue' =
             IF Throws(floodWaitSeconds, attempt) THEN AfterSend(telegramSendQueue, FALSE)
             ELSE telegramSendQueue
  /\ UNCHANGED <<now, envVars, serviceVars, relayVars>>

\* await this.sleep(waitMs) is over: the while loop calls the same task again
FloodWake(k) ==
  /\ tasks[k].state = "floodSleep"
  /\ now >= tasks[k].wake
  /\ tasks' = [tasks EXCEPT ![k] = Invoke(@)]
  /\ UNCHANGED <<now, envVars, serviceVars, telegramSendQueue, relayVars>>

(* ---- the clock ---- *)
Deadlines ==
  {tasks[k].wake : k \in {i \in 1..Len(tasks) : tasks[i].state \in {"waitInterval", "floodSleep"}}}
    \cup {tm.at : tm \in dedupTimers}

Min(S) == CHOOSE x \in S : \A y \in S : x <= y

\* time passes while nothing is due
Advance ==
  /\ now + FreeStep <= MaxTime
  /\ \A d \in Deadlines : now + FreeStep <= d
  /\ now' = now + FreeStep
  /\ UNCHANGED <<envVars, serviceVars, queueVars, relayVars>>

\* time passes until the earliest pending timer is due
JumpToDeadline ==
  /\ Deadlines # {}
  /\ now < Min(Deadlines)
  /\ now' = Min(Deadlines)
  /\ UNCHANGED <<envVars, serviceVars, queueVars, relayVars>>

(* ---- the pair directory and the QQ events of the model ---- *)
NoPair == [id |-> 0]
NoThread == Null       \* a chat-level ("general") binding, a message outside any thread
NoReply == "none"      \* a message that replies to nothing

\* r1: bound to chat 100, modes from the environment, a sender blocklist (written with a
\*     space after the comma) and an ignore pattern;
\* r2: bound to chat 200 with QQ->TG disabled; r3: unbound;
\* r4: bound to thread 7 of chat 100, with an ignore pattern that does not compile
InitialPairs ==
  [r \in {"r1", "r2", "r3", "r4"} |->
     CASE r = "r1" -> [id |-> 1, instanceId |-> 1, qqRoomId |-> "r1", tgChatId |-> 100,
                       tgThreadId |-> NoThread, forwardMode |-> <<>>, nicknameMode |-> <<>>,
                       ignoreSenders |-> << <<"u8">>, <<" ", "u9">> >>,
                       ignoreRegex |-> <<"s", "p">>]
       [] r = "r2" -> [id |-> 2, instanceId |-> 1, qqRoomId |-> "r2", tgChatId |-> 200,
                       tgThreadId |-> NoThread, forwardMode |-> <<"0", "1">>,
                       nicknameMode |-> <<>>, ignoreSenders |-> <<>>, ignoreRegex |-> <<>>]
       [] r = "r4" -> [id |-> 4, instanceId |-> 1, qqRoomId |-> "r4", tgChatId |-> 100,
                       tgThreadId |-> 7, forwardMode |-> <<>>, nicknameMode |-> <<>>,
                       ignoreSenders |-> <<>>, ignoreRegex |-> <<"(", "s">>]
       [] OTHER -> NoPair]

PairIds == {InitialPairs[r].id : r \in DOMAIN InitialPairs} \ {NoPair.id}

\* the modes the row of pair id holds when the pairs are loaded
StoredModes(id) ==
  LET pair == InitialPairs[CHOOSE r \in DOMAIN InitialPairs : InitialPairs[r].id = id]
  IN [forwardMode |-> pair.forwardMode, nicknameMode |-> pair.nicknameMode]

QQMsg(id, room, sender, text) ==
  [id |-> id, room |-> room, sender |-> sender, text |-> text, reply |-> NoReply]

\* a message whose content holds a reply segment to message reply of the same room
QQReply(id, room, sender, text, reply) == [QQMsg(id, room, sender, text) EXCEPT !.reply = reply]

\* the message events qqClient can deliver (text: the joined text segments, as characters)
QQInbound ==
  { QQMsg("m1", "r1", "u1", <<"h", "i">>),
    QQMsg("m2", "r1", "u1", <<"h", "i">>),
    QQMsg("m3", "r1", "u1", <<" ", "/", "m">>),
    QQMsg("m3", "r3", "u1", <<"h", "i">>),
    QQMsg("m3", "r2", "u1", <<"h", "i">>),
    QQMsg("m3", "r1", "u9", <<"h", "i">>),
    QQMsg("m3", "r1", "u1", <<"a", "s", "p">>) }

\* the rooms whose poke notifications are delivered
PokeGroups == {"r1", "r2", "r3"}

RECURSIVE trimStart(_)
trimStart(text) ==
  IF text # <<>> /\ text[1] = " " THEN trimStart(SubSeq(text, 2, Len(text))) ELSE text

RECURSIVE trimEnd(_)
trimEnd(text) ==
  IF text # <<>> /\ text[Len(text)] = " " THEN trimEnd(SubSeq(text, 1, Len(text) - 1)) ELSE text

\* String.prototype.trim
trim(text) == trimEnd(trimStart(text))

startsWithSlashUntrimmed(text) == text # <<>> /\ text[1] = "/"

\* text.startsWith('/') on the trimmed text
startsWithSlash(text) == LET t == trimStart(text) IN t # <<>> /\ t[1] = "/"

\* RegExp(pattern).test(text) for a literal pattern: text contains pattern
RegexTest(pattern, text) ==
  \E i \in 1..(Len(text) - Len(pattern) + 1) : SubSeq(text, i, i + Len(pattern) - 1) = pattern

\* new RegExp(pattern) throws on an unbalanced parenthesis
RegexCompiles(pattern) == \A i \in 1..Len(pattern) : pattern[i] # "("

RegexFiltersOrThrows(pattern, text) == ~RegexCompiles(pattern) \/ RegexTest(pattern, text)

\* try { if (new RegExp(pattern).test(text)) return } catch { warn }: the message is
\* filtered when the pattern compiles and matches
RegexFilters(pattern, text) == RegexCompiles(pattern) /\ RegexTest(pattern, text)

SendersUntrimmed(ignoreSenders) == ignoreSenders

\* pair.ignoreSenders.split(',').map(s => s.trim()); ignoreSenders: the pieces between commas
Senders(ignoreSenders) == [i \in DOMAIN ignoreSenders |-> trim(ignoreSenders[i])]

includes(senders, senderId) == \E i \in 1..Len(senders) : senders[i] = senderId

findByQQStale(room) == InitialPairs[room]

\* forwardMap.findByQQ; the handler keeps the object it returns, whose fields
\* handleModeCommand assigns, so a later read of the pair is a read of forwardMap
findByQQ(room) == forwardMap[room]

getForwardModeEnvOnly(pair) == env_FORWARD_MODE

\* pair.forwardMode || env.FORWARD_MODE
getForwardMode(pair) == IF pair.forwardMode # <<>> THEN pair.forwardMode ELSE env_FORWARD_MODE

(* ---- the correlation store and the reply resolver ---- *)
\* the row mapper.saveMessage(msg, sentMsg, pair.instanceId, pair.qqRoomId, tgChatId) writes
Correlation(msg, sentMsgId, pair) ==
  [instanceId |-> pair.instanceId, qqRoomId |-> pair.qqRoomId, qqMsgId |-> msg.id,
   tgChatId |-> pair.tgChatId, tgMsgId |-> sentMsgId]

\* the rows of the table
Rows(table) == {table[i] : i \in DOMAIN table}

\* the Telegram ids stored for QQ message qqMsgId of (instanceId, qqRoomId)
Correlated(rows, instanceId, qqRoomId, qqMsgId) ==
  {row.tgMsgId : row \in {x \in rows : /\ x.instanceId = instanceId
                                       /\ x.qqRoomId = qqRoomId
                                       /\ x.qqMsgId = qqMsgId}}

\* replyResolver.resolveQQReply(msg, instanceId, roomId) over the rows it finds: the ids it
\* can return (Null: undefined, the message is no reply or its target has no row)
resolveQQReply(rows, msg, instanceId, qqRoomId) ==
  IF msg.reply = NoReply \/ Correlated(rows, instanceId, qqRoomId, msg.reply) = {}
    THEN {Null}
    ELSE Correlated(rows, instanceId, qqRoomId, msg.reply)

ReplyArgDropped(replyToMsgId) == Null

\* replyToMsgId ? Number(replyToMsgId) : undefined
ReplyArg(replyToMsgId) == IF Falsy(replyToMsgId) THEN Null ELSE replyToMsgId

recordErrorTwice(monitor) == [monitor EXCEPT !.errors = @ + 2]

\* performanceMonitor.recordError()
recordError(monitor) == [monitor EXCEPT !.errors = @ + 1]

\* performanceMonitor.recordMessage(latency)
recordMessage(monitor) == [monitor EXCEPT !.messages = @ + 1]

(* ---- duplicate suppression ---- *)
\* this.processedMsgIds.has(String(msg.id))
IsDuplicate(id) == id \in processedMsgIds

DedupDeadlineShort(t) == t + 3 * 1000

\* setTimeout(() => this.processedMsgIds.delete(...), 30 * 1000)
DedupDeadline(t) == t + DEDUP_TTL_MS

\* modeSeen: how many values the pair's forwardMode had held when the handler read it
\* (0: not read); known: the Telegram ids stored for the reply target when the event arrived
NewCall(msg) ==
  [msg |-> msg, arrivedAt |-> now, pc |-> "done", outcome |-> "pending",
   published |-> FALSE, lookedUp |-> FALSE, task |-> 0,
   replySeen |-> {}, replyToMsgId |-> Null, modeSeen |-> 0,
   known |-> IF findByQQ(msg.room) = NoPair THEN {}
             ELSE Correlated(Rows(mapper), findByQQ(msg.room).instanceId, msg.room,
                             msg.reply)]

SetCall(c, pc, outcome) ==
  calls' = [calls EXCEPT ![c] = [@ EXCEPT !.pc = pc, !.outcome = outcome]]

\* handleQQMessage, from its entry to the first await (publishMessageCreated)
QQArrive(msg) ==
  /\ IF IsDuplicate(msg.id)
       THEN /\ calls' = Append(calls, [NewCall(msg) EXCEPT !.outcome = "duplicate"])
            /\ UNCHANGED <<processedMsgIds, dedupTimers>>
       ELSE /\ processedMsgIds' = processedMsgIds \cup {msg.id}
            /\ dedupTimers' = dedupTimers \cup {[id |-> msg.id, at |-> DedupDeadline(now)]}
            /\ calls' = Append(calls,
                 IF startsWithSlash(msg.text)
                   THEN [NewCall(msg) EXCEPT !.published = TRUE, !.outcome = "command"]
                 ELSE IF findByQQ(msg.room) = NoPair
                   THEN [NewCall(msg) EXCEPT !.published = TRUE, !.lookedUp = TRUE,
                                             !.outcome = "nopair"]
                 ELSE [NewCall(msg) EXCEPT !.published = TRUE, !.lookedUp = TRUE,
                                           !.pc = "gateway"])
  /\ UNCHANGED <<now, envVars, serviceVars, queueVars, pokes, forwardMap, sideVars>>

\* the 30 s timer of a seen id fires
DedupExpire(tm) ==
  /\ tm \in dedupTimers
  /\ now >= tm.at
  /\ processedMsgIds' = processedMsgIds \ {tm.id}
  /\ dedupTimers' = dedupTimers \ {tm}
  /\ UNCHANGED <<now, envVars, serviceVars, queueVars, calls, pokes, forwardMap, sideVars>>

\* after publishMessageCreated: forward mode, sender blocklist and ignoreRegex, then
\* populateAtDisplayNames (the messages of the model carry no mention, so it makes no
\* lookup and returns without yielding) and await this.instance.tgBot.getChat(tgChatId)
QQPolicy(c) ==
  /\ calls[c].pc = "gateway"
  /\ LET msg == calls[c].msg
         pair == findByQQ(msg.room)
         seen == [calls[c] EXCEPT !.modeSeen = Len(modeLog[msg.room])]
         invalid == pair.ignoreRegex # <<>> /\ ~RegexCompiles(pair.ignoreRegex)
         outcome ==
           IF getForwardMode(pair)[1] = "0" THEN "disabled"
           ELSE IF pair.ignoreSenders # <<>>
                   /\ includes(Senders(pair.ignoreSenders), <<msg.sender>>)
             THEN "blocked"
           ELSE IF pair.ignoreRegex # <<>> /\ RegexFilters(pair.ignoreRegex, msg.text)
             THEN "filtered"
           ELSE "pending"
     IN /\ calls' = [calls EXCEPT ![c] =
                       [seen EXCEPT !.pc = IF outcome = "pending" THEN "chat" ELSE "done",
                                    !.outcome = outcome]]
        /\ warnings' = IF outcome = "pending" /\ invalid
                         THEN [warnings EXCEPT ![pair.id] = @ + 1]
                         ELSE warnings
  /\ UNCHANGED <<now, envVars, serviceVars, queueVars, processedMsgIds, dedupTimers, pokes, forwardMap,
                 mapper, performanceMonitor, tgCalls, modeCmds, modeLog>>

\* getChat returned: this.replyResolver.resolveQQReply(...) is called and awaited; or
\* getChat threw: the catch block of handleQQMessage
QQChatDone(c, ok) ==
  /\ calls[c].pc = "chat"
  /\ LET msg == calls[c].msg
         pair == findByQQ(msg.room)
     IN IF ok
          THEN /\ calls' = [calls EXCEPT ![c] =
                              [@ EXCEPT !.pc = "reply",
                                        !.replySeen = resolveQQReply(Rows(mapper), msg,
                                                        pair.instanceId, pair.qqRoomId)]]
               /\ UNCHANGED performanceMonitor
          ELSE /\ SetCall(c, "done", "failed")
               /\ performanceMonitor' = recordError(performanceMonitor)
  /\ UNCHANGED <<now, envVars, serviceVars, queueVars, processedMsgIds, dedupTimers, pokes, forwardMap,
                 mapper, warnings, tgCalls, modeCmds, modeLog>>

\* resolveQQReply returned what its query found, at some moment between its call and now:
\* await this.enqueueTelegramSend(() => sendToTelegram(chat, msg, pair, replyTo, ...));
\* or resolveQQReply threw
QQEnqueue(c, ok) ==
  /\ calls[c].pc = "reply"
  /\ LET msg == calls[c].msg
         pair == findByQQ(msg.room)
     IN IF ok
          THEN /\ enqueueTelegramSend(c)
               /\ \E replyToMsgId \in calls[c].replySeen
                       \cup resolveQQReply(Rows(mapper), msg, pair.instanceId, pair.qqRoomId) :
                    calls' = [calls EXCEPT ![c] =
                                [@ EXCEPT !.pc = "send", !.task = Len(tasks) + 1,
                                          !.replyToMsgId = replyToMsgId]]
               /\ UNCHANGED performanceMonitor
          ELSE /\ SetCall(c, "done", "failed")
               /\ performanceMonitor' = recordError(performanceMonitor)
               /\ UNCHANGED queueVars
  /\ UNCHANGED <<now, envVars, serviceVars, processedMsgIds, dedupTimers, pokes, forwardMap,
                 mapper, warnings, tgCalls, modeCmds, modeLog>>

\* the argument replyTo of the sendToTelegram call that task k makes
SendReplyTo(k) == ReplyArg(calls[tasks[k].call].replyToMsgId)

HasSentMsgAlways(sentMsg) == TRUE

\* if (sentMsg)
HasSentMsg(sentMsg) == sentMsg # Null

\* the enqueued send settled: mapper.saveMessage is called on a sent message, nothing
\* more happens when the send returned nothing, the catch block runs on an error
QQSendSettled(c) ==
  /\ calls[c].pc = "send"
  /\ Settled(tasks[calls[c].task])
  /\ LET sentMsg == tasks[calls[c].task].result.value
     IN IF tasks[calls[c].task].state = "rejected"
          THEN /\ SetCall(c, "done", "failed")
               /\ performanceMonitor' = recordError(performanceMonitor)
          ELSE /\ IF HasSentMsg(sentMsg) THEN SetCall(c, "save", "pending")
                                   ELSE SetCall(c, "done", "unsent")
               /\ UNCHANGED performanceMonitor
  /\ UNCHANGED <<now, envVars, serviceVars, queueVars, processedMsgIds, dedupTimers, pokes, forwardMap,
                 mapper, warnings, tgCalls, modeCmds, modeLog>>

\* mapper.saveMessage returned, its row written: performanceMonitor.recordMessage;
\* or it threw: the catch block
QQSaved(c, ok) ==
  /\ calls[c].pc = "save"
  /\ LET msg == calls[c].msg
         pair == findByQQ(msg.room)
         sentMsg == tasks[calls[c].task].result.value
     IN IF ok
          THEN /\ mapper' = Append(mapper, Correlation(msg, sentMsg, pair))
               /\ performanceMonitor' = recordMessage(performanceMonitor)
               /\ SetCall(c, "done", "correlated")
          ELSE /\ performanceMonitor' = recordError(performanceMonitor)
               /\ SetCall(c, "done", "failed")
               /\ UNCHANGED mapper
  /\ UNCHANGED <<now, envVars, serviceVars, queueVars, processedMsgIds, dedupTimers, pokes, forwardMap,
                 warnings, tgCalls, modeCmds, modeLog>>

(* ---- poke notifications ---- *)
SetPoke(p, pc) == pokes' = [pokes EXCEPT ![p] = [@ EXCEPT !.pc = pc]]

\* handlePokeEvent, from its entry to the first await
PokeArrive(groupId, self) ==
  /\ LET pair == findByQQ(groupId)
         pc == IF pair = NoPair THEN "done"
               ELSE IF getForwardMode(pair)[1] = "0" THEN "done"
               ELSE IF self THEN "getChat"
               ELSE "opInfo"
     IN pokes' = Append(pokes, [groupId |-> groupId, self |-> self, pc |-> pc,
                                modeSeen |-> Len(modeLog[groupId])])
  /\ UNCHANGED <<now, envVars, serviceVars, queueVars, processedMsgIds, dedupTimers, calls, forwardMap, sideVars>>

\* getGroupMemberInfo(operator) then getGroupMemberInfo(target); a failed lookup is ignored
PokeOpInfo(p) ==
  /\ pokes[p].pc = "opInfo"
  /\ \E ok \in BOOLEAN : SetPoke(p, IF ok THEN "targetInfo" ELSE "getChat")
  /\ UNCHANGED <<now, envVars, serviceVars, queueVars, processedMsgIds, dedupTimers, calls, forwardMap, sideVars>>

PokeTargetInfo(p) ==
  /\ pokes[p].pc = "targetInfo"
  /\ SetPoke(p, "getChat")
  /\ UNCHANGED <<now, envVars, serviceVars, queueVars, processedMsgIds, dedupTimers, calls, forwardMap, sideVars>>

\* MessageUtils.replyTG: getChat returned, chat.sendMessage is called (or getChat threw)
PokeGetChat(p) ==
  /\ pokes[p].pc = "getChat"
  /\ \E ok \in BOOLEAN : SetPoke(p, IF ok THEN "sending" ELSE "done")
  /\ UNCHANGED <<now, envVars, serviceVars, queueVars, processedMsgIds, dedupTimers, calls, forwardMap, sideVars>>

\* chat.sendMessage settled (an error is logged and swallowed)
PokeSent(p) ==
  /\ pokes[p].pc = "sending"
  /\ SetPoke(p, "done")
  /\ UNCHANGED <<now, envVars, serviceVars, queueVars, processedMsgIds, dedupTimers, calls, forwardMap, sideVars>>

(* ---- Telegram messages and the /mode command ---- *)
\* a Telegram message: raw.messageThreadId is the explicit field of the payload,
\* raw.raw.messageThreadId the field of the envelope nested in it
TGMsg(id, chatId, threadId, nested, text) ==
  [id |-> id, chatId |-> chatId, text |-> text,
   raw |-> [messageThreadId |-> threadId, raw |-> [messageThreadId |-> nested]]]

TGInbound ==
  { TGMsg("t1", 100, NoThread, NoThread, <<"h", "i">>),
    TGMsg("t2", 100, 7, NoThread, <<"h", "i">>),
    TGMsg("t3", 100, NoThread, 8, <<"h", "i">>),
    TGMsg("t4", 200, NoThread, NoThread, <<"h", "i">>),
    TGMsg("t5", 200, NoThread, 7, <<"h", "i">>),
    TGMsg("t6", 100, NoThread, NoThread, <<"/", "m">>) }

\* a /mode command: its sender, its two arguments and the chat and thread it was sent in
ModeCmd(sender, type, value, chatId, threadId) ==
  [sender |-> sender, type |-> type, value |-> value, chatId |-> chatId,
   raw |-> [messageThreadId |-> threadId, raw |-> [messageThreadId |-> NoThread]]]

ModeInbound ==
  { ModeCmd("owner", "forward", <<"0", "1">>, 100, NoThread),
    ModeCmd("owner", "forward", <<"1", "0">>, 100, NoThread),
    ModeCmd("owner", "forward", <<"1", "1">>, 200, NoThread),
    ModeCmd("owner", "forward", <<"0", "0">>, 100, 7),
    ModeCmd("owner", "forward", <<"0", "1">>, 100, 8),
    ModeCmd("owner", "nickname", <<"1", "0">>, 100, NoThread),
    ModeCmd("owner", "forward", <<"2", "1">>, 100, NoThread),
    ModeCmd("owner", "forward", <<"0", "1", "1">>, 100, NoThread),
    ModeCmd("owner", "colour", <<"1", "1">>, 100, NoThread),
    ModeCmd("u5", "forward", <<"0", "1">>, 100, NoThread) }

\* ThreadIdExtractor.extractFromRaw: the explicit field, else the field of the nested
\* envelope, else nothing
extractFromRaw(raw) ==
  IF raw.messageThreadId # NoThread THEN raw.messageThreadId
  ELSE IF raw.raw.messageThreadId # NoThread THEN raw.raw.messageThreadId
  ELSE NoThread

\* the rooms bound to (chatId, threadId)
BoundTo(chatId, threadId) ==
  {r \in DOMAIN forwardMap : /\ forwardMap[r] # NoPair
                             /\ forwardMap[r].tgChatId = chatId
                             /\ forwardMap[r].tgThreadId = threadId}

\* forwardMap.findByTG(chatId, threadId, allowFallback): the binding of the thread; the
\* chat-level binding when no thread is given, or when allowFallback and the thread has none
findByTG(chatId, threadId, allowFallback) ==
  IF BoundTo(chatId, threadId) # {}
    THEN forwardMap[CHOOSE r \in BoundTo(chatId, threadId) : TRUE]
  ELSE IF threadId # NoThread /\ allowFallback /\ BoundTo(chatId, NoThread) # {}
    THEN forwardMap[CHOOSE r \in BoundTo(chatId, NoThread) : TRUE]
  ELSE NoPair

AllowFallbackAlways(threadId) == TRUE

\* the third argument of findByTG: !threadId
AllowFallback(threadId) == Falsy(threadId)

\* rawText.trim().startsWith('/')
IsTgCommand(text) == LET t == trim(text) IN t # <<>> /\ t[1] = "/"

\* handleTgMessage, from its entry to its awaits (publishTgPluginEvent, publishMessageCreated)
TgArrive(msg) ==
  /\ LET threadId == extractFromRaw(msg.raw)
         allowFallback == AllowFallback(threadId)
         pair == findByTG(msg.chatId, threadId, allowFallback)
     IN tgCalls' = Append(tgCalls,
          [msg |-> msg, threadId |-> threadId, allowFallback |-> allowFallback,
           room |-> IF pair = NoPair THEN "" ELSE pair.qqRoomId,
           pc |-> IF pair = NoPair THEN "done" ELSE "gateway",
           outcome |-> IF pair = NoPair THEN "nopair" ELSE "pending", modeSeen |-> 0])
  /\ UNCHANGED <<now, envVars, serviceVars, queueVars, processedMsgIds, dedupTimers, calls, pokes, forwardMap,
                 mapper, performanceMonitor, warnings, modeCmds, modeLog>>

\* after the publish awaits: a command is skipped, the forward mode is read, and
\* this.tgMessageHandler.handleTGMessage(tgMsg, pair, unified) is called
TgPolicy(t) ==
  /\ tgCalls[t].pc = "gateway"
  /\ LET pair == findByQQ(tgCalls[t].room)
         outcome == IF IsTgCommand(tgCalls[t].msg.text) THEN "command"
                    ELSE IF getForwardMode(pair)[2] = "0" THEN "disabled"
                    ELSE "handed"
     IN tgCalls' = [tgCalls EXCEPT ![t] =
                      [@ EXCEPT !.pc = IF outcome = "handed" THEN "handler" ELSE "done",
                                !.outcome = outcome,
                                !.modeSeen = IF outcome = "command" THEN 0
                                             ELSE Len(modeLog[tgCalls[t].room])]]
  /\ UNCHANGED <<now, envVars, serviceVars, queueVars, processedMsgIds, dedupTimers, calls, pokes, forwardMap,
                 mapper, performanceMonitor, warnings, modeCmds, modeLog>>

\* handleTGMessage settled
TgHandled(t) ==
  /\ tgCalls[t].pc = "handler"
  /\ tgCalls' = [tgCalls EXCEPT ![t] = [@ EXCEPT !.pc = "done"]]
  /\ UNCHANGED <<now, envVars, serviceVars, queueVars, processedMsgIds, dedupTimers, calls, pokes, forwardMap,
                 mapper, performanceMonitor, warnings, modeCmds, modeLog>>

instance_owner == "owner"

\* MessageUtils.isAdmin with neither ADMIN_QQ nor ADMIN_TG set
isAdmin(userId) == userId = instance_owner

IsModeValueOfTwoChars(value) == Len(value) = 2

\* /^[01]{2}$/.test(value)
IsModeValue(value) == Len(value) = 2 /\ \A i \in 1..2 : value[i] \in {"0", "1"}

\* handleModeCommand, from its entry to its first await: a replyTG of a refusal, or db.update
ModeArrive(cmd) ==
  /\ LET threadId == extractFromRaw(cmd.raw)
         allowFallback == AllowFallback(threadId)
         pair == findByTG(cmd.chatId, threadId, allowFallback)
         checked == isAdmin(cmd.sender) /\ IsModeValue(cmd.value)
         outcome == IF ~isAdmin(cmd.sender) THEN "denied"
                    ELSE IF ~IsModeValue(cmd.value) THEN "usage"
                    ELSE IF pair = NoPair THEN "nopair"
                    ELSE IF cmd.type \notin {"nickname", "forward"} THEN "unknown"
                    ELSE "pending"
     IN modeCmds' = Append(modeCmds,
          [cmd |-> cmd, threadId |-> threadId,
           lookedUp |-> checked, allowFallback |-> checked /\ allowFallback,
           room |-> IF checked /\ pair # NoPair THEN pair.qqRoomId ELSE "",
           pc |-> IF outcome = "pending" THEN "db" ELSE "reply", outcome |-> outcome])
  /\ UNCHANGED <<now, envVars, serviceVars, queueVars, processedMsgIds, dedupTimers, calls, pokes, forwardMap,
                 mapper, performanceMonitor, warnings, tgCalls, modeLog>>

\* db.update returned: the field of the pair object is assigned, replyTG is awaited;
\* or it threw: the catch block replies
ModeDb(m, ok) ==
  /\ modeCmds[m].pc = "db"
  /\ LET cmd == modeCmds[m].cmd
         room == modeCmds[m].room
         id == forwardMap[room].id
     IN IF ok
          THEN /\ db_forwardPair' =
                    [db_forwardPair EXCEPT ![id] =
                       IF cmd.type = "nickname" THEN [@ EXCEPT !.nicknameMode = cmd.value]
                       ELSE [@ EXCEPT !.forwardMode = cmd.value]]
               /\ forwardMap' =
                    [forwardMap EXCEPT ![room] =
                       IF cmd.type = "nickname" THEN [@ EXCEPT !.nicknameMode = cmd.value]
                       ELSE [@ EXCEPT !.forwardMode = cmd.value]]
               /\ modeLog' = IF cmd.type = "nickname" THEN modeLog
                             ELSE [modeLog EXCEPT ![room] = Append(@, cmd.value)]
               /\ modeCmds' = [modeCmds EXCEPT ![m] =
                                 [@ EXCEPT !.pc = "reply", !.outcome = "updated"]]
          ELSE /\ modeCmds' = [modeCmds EXCEPT ![m] =
                                 [@ EXCEPT !.pc = "reply", !.outcome = "failed"]]
               /\ UNCHANGED <<forwardMap, modeLog, db_forwardPair>>
  /\ UNCHANGED <<now, envVars, exceptModeDb, queueVars, processedMsgIds, dedupTimers, calls, pokes,
                 mapper, performanceMonitor, warnings, tgCalls>>

\* MessageUtils.replyTG settled (it swallows its errors)
ModeReplied(m) ==
  /\ modeCmds[m].pc = "reply"
  /\ modeCmds' = [modeCmds EXCEPT ![m] = [@ EXCEPT !.pc = "done"]]
  /\ UNCHANGED <<now, envVars, serviceVars, queueVars, processedMsgIds, dedupTimers, calls, pokes, forwardMap,
                 mapper, performanceMonitor, warnings, tgCalls, modeLog>>

(* ---- the send queue on its own: any sequence of enqueueTelegramSend calls ---- *)
Enqueue ==
  /\ Len(tasks) < MaxTasks
  /\ enqueueTelegramSend(0)
  /\ UNCHANGED <<now, envVars, serviceVars, relayVars>>

\* the users of the permission service: [prefix, raw], for the id prefix + raw
Uid(prefix, raw) == [prefix |-> prefix, raw |-> raw]

\* the rows the UserPermissions table holds when the plugin is installed: user 5 is ADMIN
\* `${userId}:${instanceId}`: the key of a row of UserPermissions and of a cache entry
PermKey(userId, instanceId) == [userId |-> userId, instanceId |-> instanceId]

InitialPermissions ==
  [k \in {PermKey(Uid("tg:u:", 5), 0)} |->
     [permissionLevel |-> 1, grantedBy |-> Uid("tg:u:", 1)]]

\* the state after construction, for a process started with NODE_ENV in nodeEnvs and
\* FORWARD_MODE in forwardModes
InitState(nodeEnvs, forwardModes) ==
  /\ now = 0
  /\ nodeEnv \in nodeEnvs
  /\ env_FORWARD_MODE \in forwardModes
  /\ telegramSendQueue = [chain |-> 0, nextAvailableAt |-> 0]
  /\ tasks = <<>>
  /\ processedMsgIds = {}
  /\ dedupTimers = {}
  /\ calls = <<>>
  /\ pokes = <<>>
  /\ forwardMap = InitialPairs
  /\ mapper = <<>>
  /\ performanceMonitor = [messages |-> 0, errors |-> 0]
  /\ warnings = [id \in PairIds |-> 0]
  /\ tgCalls = <<>>
  /\ modeCmds = <<>>
  /\ modeLog = [r \in DOMAIN InitialPairs |->
                  IF InitialPairs[r] = NoPair THEN <<>> ELSE <<InitialPairs[r].forwardMode>>]
  /\ forwardPairs = {}
  /\ bindCalls = <<>>
  /\ addLog = <<>>
  /\ stateManager = [state |-> [threadId |-> Null, timedOut |-> FALSE, pending |-> FALSE],
                     prompts |-> 0]
  /\ napcat = [message |-> <<>>, segments |-> <<>>]
  /\ populate = [pc |-> "idle"]
  /\ permissionOptions = [installed |-> FALSE]
  /\ userPermissions = InitialPermissions
  /\ permissionCache = <<>>
  /\ permissionAuditLogs = <<>>
  /\ permCalls = <<>>
  /\ cache = <<>>
  /\ cacheOps = <<>>
  /\ GatewayRuntime = [server |-> [id |-> 0, port |-> 0],
                       publisher |-> [id |-> 0, server |-> 0], executors |-> <<>>,
                       pairsProvider |-> <<>>, servers |-> 0, publishers |-> 0,
                       actionExecutors |-> 0]
  /\ gatewayCalls = <<>>
  /\ buckets = <<>>
  /\ cooldownCalls = <<>>
  /\ guardCall = [n |-> 0, pc |-> "unwrapped"]
  /\ db_forwardPair = [id \in PairIds |-> StoredModes(id)]
  /\ commands = [initialized |-> FALSE, permissionPlugin |-> FALSE, n |-> 0, pc |-> "idle"]
  /\ tgSenders = [cache |-> <<>>, inflight |-> <<>>, lookups |-> <<>>, calls |-> <<>>, ticks |-> 0]
  /\ consumerState = [tasks |-> <<>>, timer |-> 0, n |-> 0, timers |-> 0, intervals |-> {}, ran |-> <<>>, immediate |-> {}, emptyTicks |-> {}]

Init == InitState({"test", "production"}, {<<"1", "1">>})

\* the steps of the queue; errors and returns: what the sends of the specification can
\* throw and resolve with
SendStep(errors, returns) ==
  \/ \E k \in 1..Len(tasks) : RunStart(k)
  \/ \E k \in 1..Len(tasks) : IntervalWake(k)
  \/ \E k \in 1..Len(tasks), ret \in returns : TaskSucceeds(k, ret)
  \/ \E k \in 1..Len(tasks), error \in errors : TaskFails(k, error)

Retry == \E k \in 1..Len(tasks) : FloodWake(k)

QueueNext == Enqueue \/ SendStep(Errors, {"message"}) \/ Retry \/ Advance \/ JumpToDeadline

SpecQueue == Init /\ [][QueueNext]_vars

\* the send queue over sends that succeed or fail with an error other than flood control
MaxSends == 3

EnqueueSend ==
  /\ Len(tasks) < MaxSends
  /\ enqueueTelegramSend(0)
  /\ UNCHANGED <<now, envVars, serviceVars, relayVars>>

NextSends == EnqueueSend \/ SendStep(RelayErrors, {"message"}) \/ Advance \/ JumpToDeadline

SpecSends == Init /\ [][NextSends]_vars

\* the event loop runs every continuation that is ready, every timer that is due fires,
\* and every attempt of a send settles
FairSpecQueue ==
  /\ SpecQueue
  /\ WF_vars(SendStep(Errors, {"message"}))
  /\ WF_vars(Retry)
  /\ WF_vars(JumpToDeadline)

\* the inbound events delivered so far, of every kind, are fewer than MaxEvents
MoreEvents == Len(calls) + Len(pokes) + Len(tgCalls) + Len(modeCmds) < MaxEvents

\* the continuations of handleQQMessage; oks: whether the awaited calls (getChat,
\* resolveQQReply, saveMessage) can throw (FALSE) in the specification
QQSteps(oks) ==
  \/ \E c \in 1..Len(calls) : QQPolicy(c)
  \/ \E c \in 1..Len(calls), ok \in oks : QQChatDone(c, ok)
  \/ \E c \in 1..Len(calls), ok \in oks : QQEnqueue(c, ok)
  \/ \E c \in 1..Len(calls) : QQSendSettled(c)
  \/ \E c \in 1..Len(calls), ok \in oks : QQSaved(c, ok)

PokeSteps ==
  \/ \E p \in 1..Len(pokes) : PokeOpInfo(p)
  \/ \E p \in 1..Len(pokes) : PokeTargetInfo(p)
  \/ \E p \in 1..Len(pokes) : PokeGetChat(p)
  \/ \E p \in 1..Len(pokes) : PokeSent(p)

RelayStep ==
  \/ MoreEvents /\ \E msg \in QQInbound : QQArrive(msg)
  \/ \E tm \in dedupTimers : DedupExpire(tm)
  \/ QQSteps({TRUE})
  \/ MoreEvents /\ \E groupId \in PokeGroups, self \in BOOLEAN : PokeArrive(groupId, self)
  \/ PokeSteps

\* the relay in production: the clock moves from deadline to deadline
Next == RelayStep \/ SendStep(RelayErrors, {"message"}) \/ JumpToDeadline

InitRelay == InitState({"production"}, {<<"1", "1">>})

Spec == InitRelay /\ [][Next]_vars

(* ---- the 30 s that follow the first event ---- *)
Sleeping == \E k \in 1..Len(tasks) : tasks[k].state \in {"waitInterval", "floodSleep"}

\* time passes until a sleeping send wakes: no timer of the duplicate suppression, set
\* 30 s ahead, comes due before
JumpToWake == Sleeping /\ JumpToDeadline

(* ---- the handler of QQ messages with every outcome of its awaited calls ---- *)
\* in r1 a message, a reply to it, a reply to a message never relayed, a message of a
\* blocklisted sender, one the pattern matches and a command; in r4, whose pattern does
\* not compile, a plain message and one that holds the pattern's text; a message in r2,
\* where QQ -> TG is disabled, and one in r3, which is unbound
HandlerInbound ==
  { QQMsg("m1", "r1", "u1", <<"h", "i">>),
    QQReply("m2", "r1", "u1", <<"h", "i">>, "m1"),
    QQReply("m3", "r1", "u1", <<"h", "i">>, "m9"),
    QQMsg("m3", "r1", "u9", <<"h", "i">>),
    QQMsg("m4", "r1", "u1", <<"a", "s", "p">>),
    QQMsg("m3", "r1", "u1", <<" ", "/", "m">>),
    QQMsg("m4", "r4", "u1", <<"h", "i">>),
    QQMsg("m5", "r4", "u1", <<"(", "s">>),
    QQMsg("m3", "r2", "u1", <<"h", "i">>),
    QQMsg("m3", "r3", "u1", <<"h", "i">>) }

NextHandler ==
  \/ MoreEvents /\ \E msg \in HandlerInbound : QQArrive(msg)
  \/ QQSteps(BOOLEAN)
  \/ SendStep(RelayErrors, Returns)
  \/ JumpToWake

SpecHandler == InitRelay /\ [][NextHandler]_vars

(* ---- the handler of QQ messages over sends that meet flood control ---- *)
FloodInbound ==
  { QQMsg("m1", "r1", "u1", <<"h", "i">>),
    QQMsg("m2", "r1", "u1", <<"h", "i">>) }

FloodErrors == {OtherError, FloodToken(<<5>>)}

NextFlood ==
  \/ MoreEvents /\ \E msg \in FloodInbound : QQArrive(msg)
  \/ QQSteps(BOOLEAN)
  \/ SendStep(FloodErrors, Returns)
  \/ Retry
  \/ JumpToWake

SpecFlood == InitRelay /\ [][NextFlood]_vars

(* ---- both directions under /mode commands ---- *)
ModeQQInbound ==
  { QQMsg("m1", "r1", "u1", <<"h", "i">>),
    QQMsg("m2", "r2", "u1", <<"h", "i">>),
    QQMsg("m3", "r4", "u1", <<"h", "i">>) }

ModePokeGroups == {"r1", "r2"}

TgSteps ==
  \/ \E t \in 1..Len(tgCalls) : TgPolicy(t)
  \/ \E t \in 1..Len(tgCalls) : TgHandled(t)

ModeSteps ==
  \/ \E m \in 1..Len(modeCmds), ok \in BOOLEAN : ModeDb(m, ok)
  \/ \E m \in 1..Len(modeCmds) : ModeReplied(m)

NextMode ==
  \/ MoreEvents /\ \E msg \in ModeQQInbound : QQArrive(msg)
  \/ QQSteps({TRUE})
  \/ MoreEvents /\ \E groupId \in ModePokeGroups, self \in BOOLEAN : PokeArrive(groupId, self)
  \/ PokeSteps
  \/ MoreEvents /\ \E msg \in TGInbound : TgArrive(msg)
  \/ TgSteps
  \/ MoreEvents /\ \E cmd \in ModeInbound : ModeArrive(cmd)
  \/ ModeSteps
  \/ SendStep(RelayErrors, {"message"})
  \/ JumpToWake

\* FORWARD_MODE of the environment enables both directions, or neither
InitMode == InitState({"production"}, {<<"1", "1">>, <<"0", "0">>})

SpecMode == InitMode /\ [][NextMode]_vars

(* ---- commands in both directions ---- *)
\* in r1, bound to chat 100 with the modes of the environment, and in r2, bound to chat
\* 200 with QQ -> TG disabled: commands, with and without spaces around them, and texts
\* that hold a slash further on
SkipQQInbound ==
  { QQMsg("m1", "r1", "u1", <<"/", "m">>),
    QQMsg("m2", "r1", "u1", <<" ", "/", "m">>),
    QQMsg("m3", "r1", "u1", <<"h", "/">>),
    QQMsg("m4", "r2", "u1", <<"/", "m">>),
    QQMsg("m5", "r1", "u1", <<"h", "i">>) }

SkipTGInbound ==
  { TGMsg("t1", 100, NoThread, NoThread, <<"/", "m">>),
    TGMsg("t2", 100, NoThread, NoThread, <<" ", "/", "m", " ">>),
    TGMsg("t3", 100, NoThread, NoThread, <<"h", "/">>),
    TGMsg("t4", 200, NoThread, NoThread, <<"/", "m">>) }

NextSkip ==
  \/ MoreEvents /\ \E msg \in SkipQQInbound : QQArrive(msg)
  \/ QQSteps({TRUE})
  \/ MoreEvents /\ \E msg \in SkipTGInbound : TgArrive(msg)
  \/ TgSteps
  \/ SendStep(RelayErrors, {"message"})
  \/ JumpToWake

SpecSkip == InitMode /\ [][NextSkip]_vars

(* ======================= bind operations on the pair directory ======================= *)
MaxBinds == 2

BindRooms == {5, 6}
BindChats == {100}
BindThreads == {NoThread, 7}

DigitChars == <<"0", "1", "2", "3", "4", "5", "6", "7", "8", "9">>

IsDigit(c) == \E i \in DOMAIN DigitChars : DigitChars[i] = c

DigitOf(c) == (CHOOSE i \in DOMAIN DigitChars : DigitChars[i] = c) - 1

\* /^-?\d+$/.test(text)
IsGroupNumber(text) ==
  LET digits == IF text # <<>> /\ text[1] = "-" THEN Tail(text) ELSE text
  IN digits # <<>> /\ \A i \in DOMAIN digits : IsDigit(digits[i])

\* the number a string of digits with an optional sign denotes
RECURSIVE BigInt(_)
BigInt(text) ==
  IF text = <<>> THEN 0
  ELSE IF text[1] = "-" THEN 0 - BigInt(Tail(text))
  ELSE 10 * BigInt(SubSeq(text, 1, Len(text) - 1)) + DigitOf(text[Len(text)])

\* qqRoomId.toString()
RECURSIVE toString(_)
toString(n) ==
  IF n < 0 THEN <<"-">> \o toString(0 - n)
  ELSE IF n < 10 THEN <<DigitChars[n + 1]>>
  ELSE toString(n \div 10) \o <<DigitChars[(n % 10) + 1]>>

BindPair(qqRoomId, tgChatId, tgThreadId) ==
  [qqRoomId |-> qqRoomId, tgChatId |-> tgChatId, tgThreadId |-> tgThreadId]

\* the records of pairs bound to (chatId, threadId)
Occupying(pairs, chatId, threadId) ==
  {p \in pairs : p.tgChatId = chatId /\ p.tgThreadId = threadId}

ConflictingNever(pairs, qqRoomId, chatId, threadId) == {}

\* the records of pairs that keep (chatId, threadId) from being bound to qqRoomId
Conflicting(pairs, qqRoomId, chatId, threadId) ==
  {p \in Occupying(pairs, chatId, threadId) : p.qqRoomId # qqRoomId}

\* what an upsert of the record of qqRoomId leaves in place
KeptAll(pairs, qqRoomId) == pairs

Kept(pairs, qqRoomId) == {p \in pairs : p.qqRoomId # qqRoomId}

\* forwardMap.add(qqRoomId, tgChatId, tgThreadId): the directory it leaves and the record
\* it returns; a (chat, thread) bound to another room is a conflict, and the existing
\* record comes back with the directory as it was
add(pairs, qqRoomId, tgChatId, tgThreadId) ==
  IF Conflicting(pairs, qqRoomId, tgChatId, tgThreadId) # {}
    THEN [pairs |-> pairs,
          rec |-> CHOOSE p \in Conflicting(pairs, qqRoomId, tgChatId, tgThreadId) : TRUE]
    ELSE [pairs |-> Kept(pairs, qqRoomId) \cup {BindPair(qqRoomId, tgChatId, tgThreadId)},
          rec |-> BindPair(qqRoomId, tgChatId, tgThreadId)]

\* one entry of addLog
AddCall(via, qqRoomId, chatId, threadId, after, rec) ==
  [via |-> via, qqRoomId |-> qqRoomId, tgChatId |-> chatId, tgThreadId |-> threadId,
   before |-> forwardPairs, after |-> after, rec |-> rec]

DirectBinds == {i \in DOMAIN addLog : addLog[i].via = "direct"}

MoreBinds == Cardinality(DirectBinds) + Len(bindCalls) < MaxBinds

\* a bind operation that calls forwardMap.add itself
Bind(qqRoomId, chatId, threadId) ==
  /\ MoreBinds
  /\ LET r == add(forwardPairs, qqRoomId, chatId, threadId)
     IN /\ forwardPairs' = r.pairs
        /\ addLog' = Append(addLog, AddCall("direct", qqRoomId, chatId, threadId, r.pairs, r.rec))
  /\ UNCHANGED <<exceptBind, bindCalls, stateManager>>

\* no binding state: what stateManager.getBindingState returns after deleteBindingState
NoBindingState == [threadId |-> Null, timedOut |-> FALSE, pending |-> FALSE]

\* the bind command asks a sender without binding state for the number of the QQ group:
\* the binding state of the sender holds the thread the command was sent in
BindPrompt(threadId) ==
  /\ stateManager.prompts < MaxBinds
  /\ ~stateManager.state.pending
  /\ stateManager' = [state |-> [threadId |-> threadId, timedOut |-> FALSE, pending |-> TRUE],
                      prompts |-> stateManager.prompts + 1]
  /\ UNCHANGED <<exceptBind, forwardPairs, bindCalls, addLog>>

\* the time the sender has to answer is over: stateManager.isTimeout(bindingState)
BindExpire ==
  /\ stateManager.state.pending /\ ~stateManager.state.timedOut
  /\ stateManager' = [stateManager EXCEPT !.state.timedOut = TRUE]
  /\ UNCHANGED <<exceptBind, forwardPairs, bindCalls, addLog>>

\* stateManager.deleteBindingState(chatId, senderId)
deleteBindingState(manager) == [manager EXCEPT !.state = NoBindingState]

\* the texts a sender answers the bind prompt with
BindTexts ==
  { <<"5">>, <<"6">>, <<" ", "6">>, <<"0", "5">>, <<"x">>, <<"/", "b">> }

\* forwardMap.findByTG(chatId, threadId, false)
tgOccupied(chatId, threadId) ==
  IF Occupying(forwardPairs, chatId, threadId) # {}
    THEN CHOOSE p \in Occupying(forwardPairs, chatId, threadId) : TRUE
    ELSE NoPair

IsOccupiedNever(occupied, qqGroupId) == FALSE

\* tgOccupied && tgOccupied.qqRoomId.toString() !== qqGroupId
IsOccupied(occupied, qqGroupId) ==
  IF occupied = NoPair THEN FALSE ELSE toString(occupied.qqRoomId) # qqGroupId

BindCall(chatId, bindingState, text, pc, reply, deleted) ==
  [chatId |-> chatId, threadId |-> bindingState.threadId, text |-> text, pc |-> pc,
   reply |-> reply, deleted |-> deleted, before |-> forwardPairs,
   occupied |-> tgOccupied(chatId, bindingState.threadId), rec |-> NoPair]

\* handleTgMessage of a sender with a binding state, up to its first await; ok: whether
\* forwardMap.add fulfils
BindInput(chatId, text, ok) ==
  /\ MoreBinds
  /\ text # <<>>
  /\ stateManager.state.pending
  /\ stateManager' = IF text[1] # "/" /\ stateManager.state.timedOut
                        THEN deleteBindingState(stateManager) ELSE stateManager
  /\ LET bindingState == stateManager.state
         threadId == bindingState.threadId
         qqGroupId == trim(text)
         r == add(forwardPairs, BigInt(qqGroupId), chatId, threadId)
         Log(pc, reply, deleted) ==
           bindCalls' = Append(bindCalls,
                               BindCall(chatId, bindingState, text, pc, reply, deleted))
     IN IF text[1] = "/"
          THEN Log("done", "none", FALSE) /\ UNCHANGED <<forwardPairs, addLog>>
        ELSE IF bindingState.timedOut
          THEN Log("reply", "timeout", TRUE) /\ UNCHANGED <<forwardPairs, addLog>>
        ELSE IF ~IsGroupNumber(qqGroupId)
          THEN Log("reply", "cancelled", FALSE) /\ UNCHANGED <<forwardPairs, addLog>>
        ELSE IF IsOccupied(tgOccupied(chatId, threadId), qqGroupId)
          THEN Log("reply", "occupied", FALSE) /\ UNCHANGED <<forwardPairs, addLog>>
        ELSE IF ok
          THEN /\ forwardPairs' = r.pairs
               /\ addLog' = Append(addLog, AddCall("flow", BigInt(qqGroupId), chatId,
                                                   threadId, r.pairs, r.rec))
               /\ bindCalls' = Append(bindCalls,
                    [BindCall(chatId, bindingState, text, "add", "none", FALSE)
                       EXCEPT !.rec = r.rec])
        ELSE /\ addLog' = Append(addLog, AddCall("flow", BigInt(qqGroupId), chatId,
                                                 threadId, forwardPairs, NoPair))
             /\ Log("add", "none", FALSE)
             /\ UNCHANGED forwardPairs
  /\ UNCHANGED exceptBind

SetBindCall(b, pc, reply, deleted) ==
  bindCalls' = [bindCalls EXCEPT ![b].pc = pc, ![b].reply = reply, ![b].deleted = deleted]

\* forwardMap.add has settled: the reply that tells the sender how the bind went
BindAdded(b) ==
  /\ bindCalls[b].pc = "add"
  /\ LET c == bindCalls[b]
         qqGroupId == trim(c.text)
     IN IF c.rec = NoPair THEN SetBindCall(b, "reply", "error", FALSE)
        ELSE IF toString(c.rec.qqRoomId) # qqGroupId
          THEN SetBindCall(b, "reply", "conflict", FALSE)
        ELSE SetBindCall(b, "reply", "success", FALSE)
  /\ UNCHANGED <<exceptBind, forwardPairs, addLog, stateManager>>

\* the reply is out: the binding state of the sender is deleted
BindReplied(b) ==
  /\ bindCalls[b].pc = "reply"
  /\ SetBindCall(b, "done", bindCalls[b].reply, TRUE)
  /\ stateManager' = IF bindCalls[b].deleted THEN stateManager
                     ELSE deleteBindingState(stateManager)
  /\ UNCHANGED <<exceptBind, forwardPairs, addLog>>

NextBind ==
  \/ \E r \in BindRooms, c \in BindChats, t \in BindThreads : Bind(r, c, t)
  \/ \E t \in BindThreads : BindPrompt(t)
  \/ BindExpire
  \/ \E c \in BindChats, text \in BindTexts, ok \in BOOLEAN : BindInput(c, text, ok)
  \/ \E b \in DOMAIN bindCalls : BindAdded(b) \/ BindReplied(b)

SpecBind == InitRelay /\ [][NextBind]_vars

(* ======================= UnifiedConverter.toNapCat ======================= *)
MaxContent == 2

\* a field that is not set
Undefined == <<"undefined">>

\* a ?? b
Coalesce(a, b) == IF a # Undefined THEN a ELSE b

\* Map.delete(key)
MapDelete(map, key) == [k \in DOMAIN map \ {key} |-> map[k]]

\* Map.set(key, value)
MapSet(map, key, value) == [k \in DOMAIN map \cup {key} |-> IF k = key THEN value ELSE map[k]]

At(userId, userName) ==
  [type |-> "at", userId |-> userId, targetId |-> Undefined, userName |-> userName,
   name |-> Undefined]

Text(text) == [type |-> "text", text |-> text]

\* the content entries of the messages converted
Contents ==
  { Text(<<"h", "i">>),
    [type |-> "image", url |-> <<"u">>, isSpoiler |-> FALSE],
    [type |-> "reply", messageId |-> <<"9">>],
    [type |-> "face", id |-> <<"1">>],
    At(<<"4", "2">>, Undefined),
    At(<<"4", "2">>, <<"a", "l">>),
    At(<<" ", "7">>, Undefined),
    At(<<"b", "o", "b">>, Undefined),
    At(<<"b", "o", "b">>, <<"@", "a", "l">>),
    At(<<"4", "x">>, <<" ", "a", "l">>),
    [At(Undefined, Undefined) EXCEPT !.targetId = <<"8">>],
    [At(Undefined, Undefined) EXCEPT !.name = <<"a", "l">>] }

RECURSIVE SeqsUpTo(_, _)
SeqsUpTo(S, n) ==
  IF n = 0 THEN {<<>>}
  ELSE SeqsUpTo(S, n - 1) \cup {Append(q, x) : q \in SeqsUpTo(S, n - 1), x \in S}

Messages == SeqsUpTo(Contents, MaxContent)

RawIdUntrimmed(data) == Coalesce(Coalesce(data.userId, data.targetId), <<>>)

\* String(content.data?.userId ?? content.data?.targetId ?? '').trim()
RawId(data) == trim(Coalesce(Coalesce(data.userId, data.targetId), <<>>))

\* /^\d+$/.test(raw)
IsNumeric(raw) == raw # <<>> /\ \A i \in DOMAIN raw : IsDigit(raw[i])

\* the segments one content entry adds
SegmentsOf(content) ==
  CASE content.type = "text" -> <<[type |-> "text", data |-> [text |-> content.text]]>>
    [] content.type = "image" ->
         <<[type |-> "image",
            data |-> [file |-> content.url,
                      sub_type |-> IF content.isSpoiler THEN 7 ELSE 0]]>>
    [] content.type = "at" ->
         LET raw == RawId(content)
             name == trim(Coalesce(Coalesce(content.userName, content.name), raw))
         IN IF ~IsNumeric(raw)
              THEN <<[type |-> "text",
                      data |-> [text |-> IF name # <<>> /\ name[1] = "@"
                                           THEN name ELSE <<"@">> \o name]]>>
              ELSE <<[type |-> "at", data |-> [qq |-> raw]]>>
    [] content.type = "reply" ->
         <<[type |-> "reply", data |-> [messageId |-> content.messageId]]>>
    [] OTHER -> <<>>

\* segments.push(...) for each entry of message.content in turn
RECURSIVE toNapCat(_)
toNapCat(content) ==
  IF content = <<>> THEN <<>>
  ELSE toNapCat(SubSeq(content, 1, Len(content) - 1)) \o SegmentsOf(content[Len(content)])

Convert(message) ==
  /\ napcat' = [message |-> message, segments |-> toNapCat(message)]
  /\ UNCHANGED exceptConvert

NextConvert == \E message \in Messages : Convert(message)

SpecConvert == InitRelay /\ [][NextConvert]_vars

(* ======================= MessageUtils.populateAtDisplayNames ======================= *)
\* the content entries of the messages whose mentions are resolved
PopulateContents ==
  { Text(<<"h", "i">>),
    At(<<"4", "2">>, Undefined),
    At(<<"4", "2">>, <<"B", "o", "b">>),
    At(<<"4", "2">>, <<"4", "2">>),
    At(<<"4", "3">>, <<" ">>),
    At(<<"a", "l", "l">>, Undefined),
    At(Undefined, <<"B", "o", "b">>) }

MemberIds == {<<"4", "2">>, <<"4", "3">>}

\* what qqClient.getGroupMemberInfo can settle with: a rejection, or the card and the
\* nickname of the member
MemberInfos ==
  { [ok |-> FALSE, card |-> Undefined, nickname |-> Undefined],
    [ok |-> TRUE, card |-> <<"A", "l">>, nickname |-> <<"N", "i", "c", "k">>],
    [ok |-> TRUE, card |-> <<" ">>, nickname |-> <<"N", "i", "c", "k">>],
    [ok |-> TRUE, card |-> Undefined, nickname |-> Undefined] }

\* value?.trim(), and '' for a value that is not set
TrimOrEmpty(value) == IF value = Undefined THEN <<>> ELSE trim(value)

\* a || b for strings
OrElse(a, b) == IF a # <<>> THEN a ELSE b

\* String(content.data?.userId ?? '')
UserIdOf(content) == Coalesce(content.userId, <<>>)

\* content.data.userName = name, and on to the next entry
Named(p, name) ==
  [p EXCEPT !.content[p.i].userName = name, !.i = p.i + 1]

\* the loop over msg.content from entry p.i, up to the next await or the end
RECURSIVE RunLoop(_)
RunLoop(p) ==
  IF p.i > Len(p.content) THEN [p EXCEPT !.pc = "done"]
  ELSE LET content == p.content[p.i]
           userId == UserIdOf(content)
           providedName == TrimOrEmpty(content.userName)
       IN IF content.type # "at" THEN RunLoop([p EXCEPT !.i = p.i + 1])
          ELSE IF userId = <<>> \/ userId = <<"a", "l", "l">>
            THEN RunLoop([p EXCEPT !.i = p.i + 1])
          ELSE IF userId \in DOMAIN p.nameCache /\ p.nameCache[userId] # <<>>
            THEN RunLoop(Named(p, p.nameCache[userId]))
          ELSE IF providedName # <<>> /\ providedName # userId
            THEN RunLoop([Named(p, providedName) EXCEPT
                            !.nameCache = MapSet(p.nameCache, userId, providedName)])
          ELSE [p EXCEPT !.pc = "lookup"]

\* populateAtDisplayNames(msg, qqClient) up to its first await; members: what
\* getGroupMemberInfo settles with for each member of the chat
PopulateStart(chatType, content, members) ==
  /\ populate.pc = "idle"
  /\ LET p == [pc |-> "run", chatType |-> chatType, original |-> content,
               content |-> content, i |-> 1, nameCache |-> <<>>, lookups |-> <<>>,
               members |-> members]
     IN populate' = IF chatType # "group" THEN [p EXCEPT !.pc = "done"] ELSE RunLoop(p)
  /\ UNCHANGED exceptPopulate

\* getGroupMemberInfo has settled: the name of the mention, and on with the loop
PopulateLookupDone ==
  /\ populate.pc = "lookup"
  /\ LET p == [populate EXCEPT !.pc = "run"]
         content == p.content[p.i]
         userId == UserIdOf(content)
         providedName == TrimOrEmpty(content.userName)
         memberInfo == p.members[userId]
         resolvedName ==
           IF memberInfo.ok
             THEN OrElse(TrimOrEmpty(memberInfo.card),
                         OrElse(TrimOrEmpty(memberInfo.nickname), userId))
             ELSE OrElse(providedName, userId)
     IN populate' = RunLoop([Named(p, resolvedName) EXCEPT
                               !.nameCache = MapSet(p.nameCache, userId, resolvedName),
                               !.lookups = Append(p.lookups, userId)])
  /\ UNCHANGED exceptPopulate

NextPopulate ==
  \/ \E chatType \in {"group", "private"}, content \in SeqsUpTo(PopulateContents, MaxContent),
        members \in [MemberIds -> MemberInfos] : PopulateStart(chatType, content, members)
  \/ PopulateLookupDone

SpecPopulate == InitRelay /\ [][NextPopulate]_vars

(* ============ PermissionService and the permissions route of the web API ============ *)
MaxPermOps == 2
MaxElapses == 2

\* PermissionLevel
SUPER_ADMIN == 0
ADMIN == 1
USER == 3

\* the owner of the system is Telegram user 1; ADMIN_QQ is not set
env_ADMIN_QQ == Null
env_ADMIN_TG == 1

\* the time that passes between two looks at the clock: 31 minutes
ElapseMs == 31 * 60 * 1000

\* the operator id of a web request without a user
System == Uid("system", 0)

PermUsers == {Uid("tg:u:", 5), Uid("tg:u:", 6)}
PermOperators == PermUsers \cup {Uid("tg:u:", env_ADMIN_TG)}
RouteOperators == {System}
GrantLevels == {SUPER_ADMIN, ADMIN}

\* the plugin configurations: cacheExpireMinutes not set, or set to 60
PermConfigs == {[cacheExpireMinutes |-> Null], [cacheExpireMinutes |-> 60]}

\* a number that is neither undefined nor 0
Truthy(n) == n # Null /\ n # 0

\* userId === raw || userId === `qq:u:${raw}` || userId === `tg:u:${raw}`
matchesUserId(userId, rawId) ==
  rawId # Null /\ userId.raw = rawId /\ userId.prefix \in {"", "qq:u:", "tg:u:"}

isSystemOwner(userId) ==
  matchesUserId(userId, env_ADMIN_QQ) \/ matchesUserId(userId, env_ADMIN_TG)

\* getCached(cacheKey) on the entries given: the entries it leaves and the value it returns
getCached(entries, cacheKey) ==
  IF cacheKey \notin DOMAIN entries THEN [cache |-> entries, value |-> Null]
  ELSE IF Truthy(entries[cacheKey].cacheExpiresAt) /\ entries[cacheKey].cacheExpiresAt <= now
    THEN [cache |-> MapDelete(entries, cacheKey), value |-> Null]
  ELSE [cache |-> entries, value |-> entries[cacheKey].permissionLevel]

\* buildCacheEntry(value); cachedAt: when the entry was built
buildCacheEntry(permissionLevel) ==
  LET minutes == permissionOptions.cacheExpireMinutes
  IN [permissionLevel |-> permissionLevel,
      cacheExpiresAt |-> IF Truthy(minutes) THEN now + minutes * 60 * 1000 ELSE Null,
      cachedAt |-> now]

\* options.defaultLevel ?? PermissionLevel.USER, with defaultLevel not set
getDefaultLevel == USER

\* InstanceRegistry.getById(instanceId).owner: instance 1 is owned by user 6
InstanceOwner(instanceId) == IF instanceId = 1 THEN 6 ELSE Null

isInstanceOwner(userId, instanceId) == matchesUserId(userId, InstanceOwner(instanceId))

\* targetInstanceId !== 0 and the entry of the global instance is cached
CachedGlobal(instanceId, value) == instanceId # 0 /\ value # Null

\* getPermissionLevel(userId, instanceId): the level, the cache it leaves and where the
\* level came from; instanceId 0: the global instance (instanceId not given); ok: whether
\* the queries of the table fulfil
getPermissionLevel(userId, instanceId, ok) ==
  LET cacheKey == PermKey(userId, instanceId)
      globalKey == PermKey(userId, 0)
      cached == getCached(permissionCache, cacheKey)
      globalCached == getCached(cached.cache, globalKey)
      Level(level, entries, from, cachedAt) ==
        [level |-> level, cache |-> entries, from |-> from, cachedAt |-> cachedAt]
      Row(key, entries) ==
        Level(userPermissions[key].permissionLevel,
              MapSet(entries, key, buildCacheEntry(userPermissions[key].permissionLevel)),
              "table", Null)
  IN IF isSystemOwner(userId) THEN Level(SUPER_ADMIN, permissionCache, "owner", Null)
     ELSE IF instanceId # 0 /\ isInstanceOwner(userId, instanceId)
       THEN Level(ADMIN, permissionCache, "instanceOwner", Null)
     ELSE IF cached.value # Null
       THEN Level(cached.value, cached.cache, "cache", permissionCache[cacheKey].cachedAt)
     ELSE IF CachedGlobal(instanceId, globalCached.value)
       THEN Level(globalCached.value, globalCached.cache, "cache",
                  permissionCache[globalKey].cachedAt)
     ELSE LET entries == IF instanceId # 0 THEN globalCached.cache ELSE cached.cache
          IN IF ok /\ cacheKey \in DOMAIN userPermissions THEN Row(cacheKey, entries)
             ELSE IF ok /\ instanceId # 0 /\ globalKey \in DOMAIN userPermissions
               THEN Row(globalKey, entries)
             ELSE Level(getDefaultLevel, entries, "default", Null)

Installed == permissionOptions.installed

MorePermOps == Len(permCalls) < MaxPermOps

\* plugin.install: the service is constructed with the options of the configuration
Install(config) ==
  /\ ~Installed
  /\ permissionOptions' = [installed |-> TRUE, cacheExpireMinutes |-> config.cacheExpireMinutes]
  /\ UNCHANGED <<now, exceptPermission, userPermissions, permissionCache,
                 permissionAuditLogs, permCalls>>

\* time passes
Elapse ==
  /\ Installed
  /\ now + ElapseMs <= MaxElapses * ElapseMs
  /\ now' = now + ElapseMs
  /\ UNCHANGED <<exceptPermission, permVars>>

\* a call of getPermissionLevel(userId, instanceId)
GetLevel(userId, instanceId, ok) ==
  /\ Installed
  /\ LET r == getPermissionLevel(userId, instanceId, ok)
     IN /\ permissionCache' = r.cache
        /\ permCalls' = Append(permCalls,
             [op |-> "level", userId |-> userId, instanceId |-> instanceId, at |-> now,
              level |-> r.level, pc |-> "done",
              returned |-> {i \in DOMAIN permCalls : permCalls[i].pc = "done"},
              from |-> r.from, cachedAt |-> r.cachedAt])
  /\ UNCHANGED <<now, exceptPermission, permissionOptions, userPermissions,
                 permissionAuditLogs>>

GrantsHigherNever(operatorLevel, permissionLevel) == FALSE

\* operatorLevel > permissionLevel: the operator grants a level above their own
GrantsHigher(operatorLevel, permissionLevel) == operatorLevel > permissionLevel

GrantCall(targetUserId, permissionLevel, operatorId, instanceId, operatorLevel, pc) ==
  [op |-> "grant", targetUserId |-> targetUserId, permissionLevel |-> permissionLevel,
   operatorId |-> operatorId, instanceId |-> instanceId, operatorLevel |-> operatorLevel,
   pc |-> pc, result |-> FALSE, stored |-> FALSE]

\* grantPermission(targetUserId, permissionLevel, operatorId, instanceId), through its
\* two checks
GrantStart(targetUserId, permissionLevel, operatorId, instanceId, ok) ==
  /\ Installed
  /\ LET r == getPermissionLevel(operatorId, instanceId, ok)
         Call(pc) == GrantCall(targetUserId, permissionLevel, operatorId, instanceId,
                               r.level, pc)
     IN /\ permissionCache' = r.cache
        /\ permCalls' =
             Append(permCalls,
                    IF GrantsHigher(r.level, permissionLevel) THEN Call("done")
                    ELSE IF permissionLevel = SUPER_ADMIN /\ ~isSystemOwner(operatorId)
                      THEN Call("done")
                    ELSE Call("insert"))
  /\ UNCHANGED <<now, exceptPermission, permissionOptions, userPermissions,
                 permissionAuditLogs>>

\* the row a grant writes
PermissionRow(permissionLevel, operatorId) ==
  [permissionLevel |-> permissionLevel, grantedBy |-> operatorId]

\* grantPermission: the insert, or update on conflict, and the cache entry deleted
GrantInsert(i, ok) ==
  /\ permCalls[i].op = "grant"
  /\ permCalls[i].pc = "insert"
  /\ IF ok
       THEN /\ userPermissions' =
                 MapSet(userPermissions,
                        PermKey(permCalls[i].targetUserId, permCalls[i].instanceId),
                        PermissionRow(permCalls[i].permissionLevel, permCalls[i].operatorId))
            /\ permissionCache' =
                 MapDelete(permissionCache,
                           PermKey(permCalls[i].targetUserId, permCalls[i].instanceId))
            /\ permCalls' = [permCalls EXCEPT ![i].pc = "audit", ![i].stored = TRUE]
       ELSE /\ permCalls' = [permCalls EXCEPT ![i].pc = "done"]
            /\ UNCHANGED <<userPermissions, permissionCache>>
  /\ UNCHANGED <<now, exceptPermission, permissionOptions, permissionAuditLogs>>

AuditRow(call, operatorId, targetUserId, permissionLevel) ==
  [eventType |-> "grant", call |-> call, operatorId |-> operatorId,
   targetUserId |-> targetUserId, permissionLevel |-> permissionLevel]

\* grantPermission: logAudit, whose failure is logged and nothing more, and return true
GrantAudit(i, ok) ==
  /\ permCalls[i].op = "grant"
  /\ permCalls[i].pc = "audit"
  /\ permissionAuditLogs' =
       IF ok THEN Append(permissionAuditLogs,
                         AuditRow(i, permCalls[i].operatorId, permCalls[i].targetUserId,
                                  permCalls[i].permissionLevel))
       ELSE permissionAuditLogs
  /\ permCalls' = [permCalls EXCEPT ![i].pc = "done", ![i].result = TRUE]
  /\ UNCHANGED <<now, exceptPermission, permissionOptions, userPermissions, permissionCache>>

\* POST /api/admin/permissions/users of a request that passed requirePluginAdmin, with a
\* valid body without instanceId; ok: whether the statements fulfil
RouteGrant(userId, permissionLevel, operatorId, ok) ==
  /\ Installed
  /\ permCalls' = Append(permCalls,
       [op |-> "route", targetUserId |-> userId, permissionLevel |-> permissionLevel,
        operatorId |-> operatorId, instanceId |-> 0, pc |-> "done", result |-> ok,
        stored |-> ok])
  /\ IF ok
       THEN /\ userPermissions' =
                 MapSet(userPermissions, PermKey(userId, 0),
                        PermissionRow(permissionLevel, operatorId))
            /\ permissionAuditLogs' =
                 Append(permissionAuditLogs,
                        AuditRow(Len(permCalls) + 1, operatorId, userId, permissionLevel))
       ELSE UNCHANGED <<userPermissions, permissionAuditLogs>>
  /\ UNCHANGED <<now, exceptPermission, permissionOptions, permissionCache>>

GrantSteps ==
  \/ /\ MorePermOps
     /\ \E t \in PermUsers, l \in GrantLevels, o \in PermOperators :
          GrantStart(t, l, o, 0, TRUE)
  \/ \E i \in DOMAIN permCalls, ok \in BOOLEAN : GrantInsert(i, ok) \/ GrantAudit(i, ok)

RouteSteps ==
  /\ MorePermOps
  /\ \E u \in PermUsers, l \in GrantLevels, o \in RouteOperators, ok \in BOOLEAN :
       RouteGrant(u, l, o, ok)

\* grants through the service and through the route, and reads of the level
NextPermission ==
  \/ \E config \in PermConfigs : Install(config)
  \/ MorePermOps /\ \E u \in PermUsers, ok \in BOOLEAN : GetLevel(u, 0, ok)
  \/ GrantSteps
  \/ RouteSteps

SpecPermission == InitRelay /\ [][NextPermission]_vars

\* reads of the level as time passes, with grants through the route in between
NextPermissionCache ==
  \/ \E config \in PermConfigs : Install(config)
  \/ Elapse
  \/ MorePermOps /\ \E u \in PermUsers, ok \in BOOLEAN : GetLevel(u, 0, ok)
  \/ RouteSteps

SpecPermissionCache == InitRelay /\ [][NextPermissionCache]_vars

\* the permissions of one instance beside the global ones: the owner of the system grants
\* and withdraws ADMIN, globally and for instance 1, and the levels are read
MaxInstanceOps == 3

PermInstances == {0, 1}
InstanceLevels == {ADMIN, USER}

MoreInstanceOps == Len(permCalls) < MaxInstanceOps

NextPermissionInstance ==
  \/ \E config \in PermConfigs : Install(config)
  \/ /\ MoreInstanceOps
     /\ \E u \in PermUsers, n \in PermInstances : GetLevel(u, n, TRUE)
  \/ /\ MoreInstanceOps
     /\ \E t \in PermUsers, l \in InstanceLevels, n \in PermInstances :
          GrantStart(t, l, Uid("tg:u:", env_ADMIN_TG), n, TRUE)
  \/ \E i \in DOMAIN permCalls, ok \in BOOLEAN : GrantInsert(i, ok) \/ GrantAudit(i, ok)

SpecPermissionInstance == InitRelay /\ [][NextPermissionInstance]_vars

(* ======================= TTLCache ======================= *)
MaxCacheOps == 3
MaxCacheTicks == 2

\* constructor(defaultTTL = 60000)
defaultTTL == 60000

\* what get returns for a key without a live entry
NotFound == "undefined"

\* the set calls made: key, value, ttl (Null: not given)
CacheSets == { <<"k1", "v1", 1>>, <<"k1", "v2", Null>>, <<"k2", "v1", 1>> }
CacheKeys == {"k1", "k2"}

\* the clock moves by a millisecond or by the default TTL
CacheTicks == {1, defaultTTL}

ExpiredNever(entry) == FALSE

\* Date.now() > entry.expires
Expired(entry) == now > entry.expires

CacheOp(op, key, result, after) ==
  [op |-> op, key |-> key, at |-> now, result |-> result, before |-> cache, after |-> after]

CacheCall(op, key, result, after) ==
  /\ Len(cacheOps) < MaxCacheOps
  /\ cache' = after
  /\ cacheOps' = Append(cacheOps, CacheOp(op, key, result, after))
  /\ UNCHANGED <<now, exceptCache>>

\* set(key, value, ttl)
CacheSet(key, value, ttl) ==
  LET expires == now + (IF ttl # Null THEN ttl ELSE defaultTTL)
  IN CacheCall("set", key, [value |-> value, ttl |-> ttl],
               MapSet(cache, key, [value |-> value, expires |-> expires]))

\* get(key): the value returned and the map left
get(key) ==
  IF key \notin DOMAIN cache THEN [value |-> NotFound, cache |-> cache]
  ELSE IF Expired(cache[key]) THEN [value |-> NotFound, cache |-> MapDelete(cache, key)]
  ELSE [value |-> cache[key].value, cache |-> cache]

CacheGet(key) == CacheCall("get", key, get(key).value, get(key).cache)

\* has(key): this.get(key) !== undefined
CacheHas(key) == CacheCall("has", key, get(key).value # NotFound, get(key).cache)

\* delete(key)
CacheDelete(key) == CacheCall("delete", key, key \in DOMAIN cache, MapDelete(cache, key))

\* the size getter
CacheSize == CacheCall("size", "", Cardinality(DOMAIN cache), cache)

\* cleanup()
CacheCleanup ==
  CacheCall("cleanup", "", NotFound, [k \in {x \in DOMAIN cache : ~Expired(cache[x])} |-> cache[k]])

CacheTick(d) ==
  /\ (now \div defaultTTL) + (now % defaultTTL) < MaxCacheTicks
  /\ now' = now + d
  /\ UNCHANGED <<exceptCache, cacheVars>>

NextCache ==
  \/ \E c \in CacheSets : CacheSet(c[1], c[2], c[3])
  \/ \E k \in CacheKeys : CacheGet(k)
  \/ CacheHas("k1")
  \/ CacheDelete("k1")
  \/ CacheSize
  \/ CacheCleanup
  \/ \E d \in CacheTicks : CacheTick(d)

SpecCache == InitRelay /\ [][NextCache]_vars

(* ======================= GatewayRuntime ======================= *)
MaxGatewayOps == 3

GatewayInstances == {1, 2}
GatewayPorts == {8765, 9000}

NeedsServerAlways(runtime) == TRUE

\* !this.server; a field that is not set holds the object numbered 0
NeedsServer(runtime) == runtime.server.id = 0

\* ensureStarted(port) on the fields given: the fields it leaves; the server and the
\* publisher are numbered in the order they are constructed
ensureStarted(runtime, port) ==
  IF NeedsServer(runtime)
    THEN [runtime EXCEPT !.server = [id |-> runtime.servers + 1, port |-> port],
                         !.publisher = [id |-> runtime.publishers + 1,
                                        server |-> runtime.servers + 1],
                         !.servers = runtime.servers + 1,
                         !.publishers = runtime.publishers + 1]
    ELSE runtime

GatewayCall(op, instanceId, after) ==
  /\ Len(gatewayCalls) < MaxGatewayOps
  /\ GatewayRuntime' = after
  /\ gatewayCalls' = Append(gatewayCalls,
       [op |-> op, instanceId |-> instanceId, before |-> GatewayRuntime, after |-> after,
        server |-> after.server, publisher |-> after.publisher])
  /\ UNCHANGED exceptGateway

EnsureStarted(port) == GatewayCall("ensureStarted", 0, ensureStarted(GatewayRuntime, port))

\* registerInstance(instanceId, qqClient, tgBot, forwardPairs); withPairs: whether
\* forwardPairs is given
RegisterInstance(instanceId, withPairs) ==
  LET started == ensureStarted(GatewayRuntime, 8765)
      executor == started.actionExecutors + 1
  IN GatewayCall("registerInstance", instanceId,
       [started EXCEPT
          !.actionExecutors = executor,
          !.executors = MapSet(started.executors, instanceId, executor),
          !.pairsProvider = IF withPairs
                              THEN MapSet(started.pairsProvider, instanceId, instanceId)
                              ELSE started.pairsProvider])

\* unregisterInstance(instanceId)
UnregisterInstance(instanceId) ==
  GatewayCall("unregisterInstance", instanceId,
    [GatewayRuntime EXCEPT
       !.executors = MapDelete(GatewayRuntime.executors, instanceId),
       !.pairsProvider = MapDelete(GatewayRuntime.pairsProvider, instanceId)])

NextGateway ==
  \/ \E port \in GatewayPorts : EnsureStarted(port)
  \/ \E id \in GatewayInstances, withPairs \in BOOLEAN : RegisterInstance(id, withPairs)
  \/ \E id \in GatewayInstances : UnregisterInstance(id)

SpecGateway == InitRelay /\ [][NextGateway]_vars

(* ======================= createCooldown and withCooldown ======================= *)
MaxCooldownCalls == 3
MaxCooldownTicks == 3

\* withCooldown(handler, { durationMs: 3000 })
durationMs == 3000

CooldownKeys == {"a", "b"}

\* the clock moves by a millisecond, or to a millisecond short of the duration
CooldownTicks == {1, durationMs - 1}

OnCooldownNever(t, until) == FALSE

\* now < until
OnCooldown(t, until) == t < until

\* the checker createCooldown returns, called with key: the result and the buckets left
cooldown(key) ==
  LET until == IF key \in DOMAIN buckets THEN buckets[key] ELSE 0
  IN IF OnCooldown(now, until)
       THEN [allowed |-> FALSE, retryInMs |-> until - now, buckets |-> buckets]
       ELSE [allowed |-> TRUE, retryInMs |-> 0,
             buckets |-> MapSet(buckets, key, now + durationMs)]

\* the handler withCooldown returns, up to its first await: the notice of the cooldown
\* for a denied call, the wrapped handler for an allowed one
WithCooldown(key) ==
  /\ Len(cooldownCalls) < MaxCooldownCalls
  /\ LET result == cooldown(key)
     IN /\ buckets' = result.buckets
        /\ cooldownCalls' = Append(cooldownCalls,
             [key |-> key, at |-> now, allowed |-> result.allowed,
              retryInMs |-> result.retryInMs,
              pc |-> IF result.allowed THEN "handler" ELSE "notice",
              handler |-> result.allowed, notice |-> ~result.allowed])
  /\ UNCHANGED <<now, exceptCooldown>>

\* the notice, or the wrapped handler, has settled
CooldownSettled(i) ==
  /\ cooldownCalls[i].pc # "done"
  /\ cooldownCalls' = [cooldownCalls EXCEPT ![i].pc = "done"]
  /\ UNCHANGED <<now, exceptCooldown, buckets>>

CooldownTick(d) ==
  /\ (now \div (durationMs - 1)) + (now % (durationMs - 1)) < MaxCooldownTicks
  /\ now' = now + d
  /\ UNCHANGED <<exceptCooldown, cooldownVars>>

NextCooldown ==
  \/ \E key \in CooldownKeys : WithCooldown(key)
  \/ \E i \in DOMAIN cooldownCalls : CooldownSettled(i)
  \/ \E d \in CooldownTicks : CooldownTick(d)

SpecCooldown == InitRelay /\ [][NextCooldown]_vars

(* ======================= withCommandGuards ======================= *)
MaxGuardCalls == 2

\* CommandGuardOptions: platform "" is an option left out, onError: a callback is given
GuardOptions ==
  [platform : {"", "qq", "tg"}, requireAdmin : BOOLEAN, requireOwner : BOOLEAN,
   requireReply : BOOLEAN, silent : BOOLEAN, onError : BOOLEAN]

\* the reply an event carries: none, message.quote, raw.rawReply as a message id, or
\* raw.rawReply as an object without id, text and sender
GuardEvents ==
  [platform : {"qq", "tg"}, isAdmin : BOOLEAN, isOwner : BOOLEAN,
   reply : {"none", "quote", "rawId", "rawEmpty"}]

\* the ReplyInfo of the event, "null" without one
getReplyMessage(event) ==
  IF event.reply = "quote" THEN "quote"
  ELSE IF event.reply = "none" THEN "null"
  ELSE IF event.reply = "rawId" THEN "rawId"
  ELSE "null"

RequireAdminFailsForOwner(options, sender) == options.requireAdmin /\ ~sender.isAdmin

\* options.requireAdmin && !(event.sender.isAdmin || event.sender.isOwner)
RequireAdminFails(options, sender) ==
  options.requireAdmin /\ ~(sender.isAdmin \/ sender.isOwner)

\* the message of the guard that stops the call, "" when the call reaches the handler
FailingGuard(options, event) ==
  IF options.platform # "" /\ event.platform # options.platform THEN "wrongPlatform"
  ELSE IF options.requireOwner /\ ~event.isOwner THEN "ownerOnly"
  ELSE IF RequireAdminFails(options, event) THEN "adminOnly"
  ELSE IF options.requireReply /\ getReplyMessage(event) = "null" THEN "missingReply"
  ELSE ""

GuardIdle == guardCall.pc \in {"idle", "done"}

\* withCommandGuards(handler, options)
WithCommandGuards(options) ==
  /\ guardCall.pc = "unwrapped"
  /\ guardCall' = [n |-> 0, options |-> options, pc |-> "idle"]
  /\ UNCHANGED exceptGuard

\* the returned handler is called: it runs to its first await, which is the reply of
\* a failed guard or the wrapped handler; a silent failed guard returns at once
GuardedCall(event) ==
  /\ GuardIdle
  /\ guardCall.n < MaxGuardCalls
  /\ LET options == guardCall.options
         failing == FailingGuard(options, event)
     IN guardCall' =
          [n |-> guardCall.n + 1, options |-> options, event |-> event,
           pc |-> IF failing = "" THEN "handler"
                  ELSE IF options.silent THEN "done" ELSE "reply",
           handler |-> IF failing = "" THEN 1 ELSE 0, threw |-> FALSE, onError |-> 0,
           replies |-> IF failing = "" \/ options.silent THEN <<>> ELSE <<failing>>]
  /\ UNCHANGED exceptGuard

\* what the call awaits settles: the wrapped handler returns (ok) or throws, and a
\* thrown error goes to options.onError, else to a reply unless silent; a reply or
\* onError that settles ends the call
GuardSettled(ok) ==
  /\ guardCall.pc \in {"handler", "reply", "onError"}
  /\ guardCall' =
       IF guardCall.pc = "handler" /\ ~ok
         THEN IF guardCall.options.onError
                THEN [guardCall EXCEPT !.threw = TRUE, !.onError = @ + 1, !.pc = "onError"]
              ELSE IF ~guardCall.options.silent
                THEN [guardCall EXCEPT !.threw = TRUE, !.replies = Append(@, "error"),
                                       !.pc = "reply"]
              ELSE [guardCall EXCEPT !.threw = TRUE, !.pc = "done"]
       ELSE [guardCall EXCEPT !.pc = "done"]
  /\ UNCHANGED exceptGuard

NextGuard ==
  \/ \E options \in GuardOptions : WithCommandGuards(options)
  \/ \E event \in GuardEvents : GuardedCall(event)
  \/ \E ok \in BOOLEAN : GuardSettled(ok)

SpecGuard == InitRelay /\ [][NextGuard]_vars

(* ======================= CommandsFeature: permission of a command ======================= *)
MaxCommandCalls == 2

\* the commands of the registry: adminOnly, and permission.level (Null: not set)
Commands == [adminOnly : BOOLEAN, level : {Null, 0, 1, 2, 3}]

\* what permissionService.checkCommandPermission settles with
CheckOutcomes == {"allowed", "denied", "throws"}

NeedsAdminByFlagOnly(command) == command.adminOnly

\* command.adminOnly || (fallbackLevel !== undefined && fallbackLevel <= 1)
NeedsAdmin(command) ==
  command.adminOnly \/ (command.level # Null /\ command.level <= 1)

\* checkPermission, the PermissionChecker of old: allowed
LegacyCheck(command, senderIsAdmin) == IF NeedsAdmin(command) THEN senderIsAdmin ELSE TRUE

\* initializePermissionPlugin: the plugin system has the permission service, or not
InitializePermissionPlugin(found) ==
  /\ ~commands.initialized
  /\ commands' = [commands EXCEPT !.initialized = TRUE, !.permissionPlugin = found]
  /\ UNCHANGED exceptCommand

\* the call goes on after checkPermission returned allowed: the denial is replied on
\* Telegram and handed to logAudit, which awaits the permission service if there is one
\* by then (service); an allowed command is handed to logAudit and then invoked
Checked(call, allowed, via) ==
  LET audit == IF allowed THEN "command_execute" ELSE "command_deny"
      decided == [call EXCEPT !.allowed = allowed, !.via = via]
      audited == [decided EXCEPT !.service = commands.permissionPlugin,
                                 !.audits = IF commands.permissionPlugin THEN <<audit>> ELSE <<>>]
  IN IF ~allowed /\ call.platform = "tg"
       THEN [decided EXCEPT !.pc = "reply", !.replies = <<"deny">>]
     ELSE IF commands.permissionPlugin THEN [audited EXCEPT !.pc = "audit"]
     ELSE IF allowed THEN [audited EXCEPT !.pc = "handler", !.handler = 1]
     ELSE [audited EXCEPT !.pc = "done"]

\* handleTgMessage / handleQqMessage with a command of the registry, to the first await
\* of checkPermission
CommandArrive(platform, command, senderIsAdmin) ==
  /\ commands.pc \in {"idle", "done"}
  /\ commands.n < MaxCommandCalls
  /\ LET call == [initialized |-> commands.initialized,
                  permissionPlugin |-> commands.permissionPlugin, n |-> commands.n + 1,
                  platform |-> platform, command |-> command, isAdmin |-> senderIsAdmin,
                  pc |-> "check", allowed |-> FALSE, via |-> "", replies |-> <<>>,
                  audits |-> <<>>, service |-> FALSE, handler |-> 0]
     IN commands' = IF commands.permissionPlugin THEN call
                    ELSE Checked(call, LegacyCheck(command, senderIsAdmin), "legacy")
  /\ UNCHANGED exceptCommand

\* checkCommandPermission has settled: its result, or the legacy check when it threw
CommandChecked(outcome) ==
  /\ commands.pc = "check"
  /\ commands' =
       IF outcome = "throws"
         THEN Checked(commands, LegacyCheck(commands.command, commands.isAdmin), "legacy")
       ELSE Checked(commands, outcome = "allowed", "plugin")
  /\ UNCHANGED exceptCommand

\* the reply, the audit or the handler has settled
CommandStep ==
  /\ commands.pc \in {"reply", "audit", "handler"}
  /\ commands' =
       IF commands.pc = "reply"
         THEN IF commands.permissionPlugin
                THEN [commands EXCEPT !.pc = "audit", !.service = TRUE,
                                      !.audits = <<"command_deny">>]
              ELSE [commands EXCEPT !.pc = "done"]
       ELSE IF commands.pc = "audit" /\ commands.allowed
         THEN [commands EXCEPT !.pc = "handler", !.handler = 1]
       ELSE [commands EXCEPT !.pc = "done"]
  /\ UNCHANGED exceptCommand

NextCommand ==
  \/ \E found \in BOOLEAN : InitializePermissionPlugin(found)
  \/ \E platform \in {"tg", "qq"}, command \in Commands, senderIsAdmin \in BOOLEAN :
       CommandArrive(platform, command, senderIsAdmin)
  \/ \E outcome \in CheckOutcomes : CommandChecked(outcome)
  \/ CommandStep

SpecCommand == InitRelay /\ [][NextCommand]_vars

(* ======================= GatewayRuntime: names of Telegram senders ======================= *)
MaxSenderCalls == 3
MaxSenderTicks == 2

\* new TTLCache(5 * 60 * 1000), and the ttl given with a null
tgSenderNameTTL == 5 * 60 * 1000
nullNameTTL == 60000

\* instance 1 runs a bot whose own id is 7; instance 2 has no bot
SenderKeys == { <<1, "7">>, <<1, "8">>, <<2, "8">> }
NoBot(cacheKey) == cacheKey[1] = 2
IsBotItself(cacheKey) == cacheKey = <<1, "7">>

\* what bot.getChat settles with: a chat of that name, or an error
GetChatOutcomes == {"ann", "bob", "error"}

\* the clock moves past the ttl of a null, or past the default ttl
SenderTicks == {nullNameTTL + 1, tgSenderNameTTL + 1}

\* tgSenderNameCache.get(cacheKey): undefined when absent or Date.now() > entry.expires
CachedName(cacheKey) ==
  IF cacheKey \in DOMAIN tgSenders.cache /\ ~(now > tgSenders.cache[cacheKey].expires)
    THEN tgSenders.cache[cacheKey].value
  ELSE NotFound

\* the map tgSenderNameCache.get(cacheKey) leaves: an expired entry is deleted
AfterGetName(cacheKey) ==
  IF cacheKey \in DOMAIN tgSenders.cache /\ now > tgSenders.cache[cacheKey].expires
    THEN MapDelete(tgSenders.cache, cacheKey)
  ELSE tgSenders.cache

\* tgSenderNameCache.set(cacheKey, value, ttl)
SetName(map, cacheKey, value, ttl) ==
  MapSet(map, cacheKey, [value |-> value, expires |-> now + ttl])

\* the in-flight lookup of the key (0: none)
Inflight(cacheKey) ==
  IF cacheKey \in DOMAIN tgSenders.inflight THEN tgSenders.inflight[cacheKey] ELSE 0

\* resolveTgSenderName(instanceId, senderId): the cached name, the promise in flight, or
\* a new task, which runs to its first await (or to its return) before
\* tgSenderNameInflight.set stores it
ResolveTgSenderName(cacheKey) ==
  /\ Len(tgSenders.calls) < MaxSenderCalls
  /\ LET cached == CachedName(cacheKey)
         task == Len(tgSenders.lookups) + 1
         call == [key |-> cacheKey, at |-> now, cached |-> cached,
                  inflight |-> Inflight(cacheKey),
                  shared |-> IF Inflight(cacheKey) = 0 THEN FALSE
                             ELSE tgSenders.lookups[Inflight(cacheKey)].pending,
                  task |-> 0]
         returnsAtOnce == NoBot(cacheKey) \/ IsBotItself(cacheKey)
         name == IF NoBot(cacheKey) THEN "null" ELSE "bot"
     IN tgSenders' =
          IF cached # NotFound \/ Inflight(cacheKey) # 0
            THEN [tgSenders EXCEPT !.calls = Append(@, call),
                                   !.cache = AfterGetName(cacheKey)]
          ELSE [tgSenders EXCEPT
                  !.calls = Append(@, [call EXCEPT !.task = task]),
                  !.lookups = Append(@, [key |-> cacheKey, startedAt |-> now,
                                         pending |-> ~returnsAtOnce, value |-> name]),
                  !.cache = IF NoBot(cacheKey)
                              THEN SetName(AfterGetName(cacheKey), cacheKey, "null", nullNameTTL)
                            ELSE IF IsBotItself(cacheKey)
                              THEN SetName(AfterGetName(cacheKey), cacheKey, "bot",
                                           tgSenderNameTTL)
                            ELSE AfterGetName(cacheKey),
                  !.inflight = MapSet(@, cacheKey, task)]
  /\ UNCHANGED <<now, exceptSender>>

\* await bot.getChat(chatId) settles: the name is cached, or a null after an error, and
\* the finally block deletes the in-flight entry
GetChatSettles(p, outcome) ==
  /\ p \in 1..Len(tgSenders.lookups)
  /\ tgSenders.lookups[p].pending
  /\ LET cacheKey == tgSenders.lookups[p].key
         name == IF outcome = "error" THEN "null" ELSE outcome
     IN tgSenders' =
          [tgSenders EXCEPT
             !.lookups[p] = [@ EXCEPT !.pending = FALSE, !.value = name],
             !.cache = IF outcome = "error" THEN SetName(@, cacheKey, "null", nullNameTTL)
                       ELSE SetName(@, cacheKey, name, tgSenderNameTTL),
             !.inflight = MapDelete(@, cacheKey)]
  /\ UNCHANGED <<now, exceptSender>>

SenderTick(d) ==
  /\ tgSenders.ticks < MaxSenderTicks
  /\ now' = now + d
  /\ tgSenders' = [tgSenders EXCEPT !.ticks = @ + 1]
  /\ UNCHANGED exceptSender

NextSender ==
  \/ \E cacheKey \in SenderKeys : ResolveTgSenderName(cacheKey)
  \/ \E p \in 1..MaxSenderCalls, outcome \in GetChatOutcomes : GetChatSettles(p, outcome)
  \/ \E d \in SenderTicks : SenderTick(d)

SpecSender == InitRelay /\ [][NextSender]_vars

(* ======================= consumer(fn, time) ======================= *)
MaxConsumerCalls == 4

\* timer == null
NoTimer == 0

\* const task = tasks.shift(); task?.() for a task whose fn returns
ShiftRun(st) ==
  [st EXCEPT !.tasks = Tail(@), !.ran = Append(@, Head(st.tasks).id)]

\* setInterval(..., time): a new interval, kept in timer
SetInterval(st) ==
  [st EXCEPT !.timers = @ + 1, !.timer = st.timers + 1, !.intervals = @ \cup {st.timers + 1}]

\* tasks.push(fn.bind(this, ...args)); again: fn calls the returned function once more
Push(st, again) ==
  [st EXCEPT !.n = @ + 1, !.tasks = Append(@, [id |-> st.n + 1, again |-> again])]

\* the returned function, called by fn while a task runs
CallFromTask(st) ==
  LET pushed == Push(st, FALSE)
  IN IF st.timer = NoTimer
       THEN SetInterval([ShiftRun(pushed) EXCEPT !.immediate = @ \cup {st.n + 1}])
     ELSE pushed

\* nextTask() with tasks.length > 0
nextTask(st) ==
  IF Head(st.tasks).again /\ st.n < MaxConsumerCalls
    THEN CallFromTask(ShiftRun(st))
  ELSE ShiftRun(st)

\* the function consumer returns: the call is pushed and, without a timer, the next task
\* runs at once and the interval is set
ConsumerCall(again) ==
  /\ consumerState.n < MaxConsumerCalls
  /\ LET pushed == Push(consumerState, again)
     IN consumerState' =
          IF consumerState.timer = NoTimer
            THEN SetInterval(nextTask([pushed EXCEPT !.immediate = @ \cup {pushed.n}]))
          ELSE pushed
  /\ UNCHANGED exceptConsumer

\* the callback of interval t: the next task, or clearInterval(timer) and timer = undefined
ConsumerTick(t) ==
  /\ t \in consumerState.intervals
  /\ consumerState' =
       IF consumerState.tasks = <<>>
         THEN [consumerState EXCEPT !.intervals = @ \ {consumerState.timer},
                                    !.timer = NoTimer, !.emptyTicks = @ \cup {t}]
       ELSE nextTask(consumerState)
  /\ UNCHANGED exceptConsumer

NextConsumer ==
  \/ \E again \in BOOLEAN : ConsumerCall(again)
  \/ \E t \in 1..MaxConsumerCalls : ConsumerTick(t)

SpecConsumer == InitRelay /\ [][NextConsumer]_vars

(* ======================= properties of the send queue ======================= *)
Started(k) == tasks[k].starts # <<>>
TaskIds == 1..Len(tasks)
CallIds == 1..Len(calls)

\* C1: the first invocation of a later-enqueued task begins only after every
\* earlier-enqueued task has settled, so tasks start in enqueue order and at most one
\* queued task is being executed (sleeping, running or waiting to retry) at a time.
C1_SerialInEnqueueOrder ==
  /\ \A i, j \in TaskIds :
       i < j /\ Started(j) =>
         /\ Settled(tasks[i])
         /\ tasks[i].settledAt <= tasks[j].starts[1]
  /\ Cardinality({k \in TaskIds : tasks[k].state \in {"waitInterval", "running", "floodSleep"}}) <= 1

\* an earlier task made three attempts and failed, and the next one has started
C1_Witness ==
  /\ Len(tasks) >= 2
  /\ tasks[1].state = "rejected"
  /\ Len(tasks[1].starts) = 3
  /\ Started(2)

FirstFloodThenOk(k) ==
  /\ Len(tasks[k].fails) = 1
  /\ tasks[k].fails[1].error = FloodToken(<<5>>)
  /\ tasks[k].state = "resolved"

\* C4: a task whose first attempt fails with FLOOD_WAIT_5 and whose second attempt
\* succeeds resolves with the second attempt's result, its caller sees no error, the
\* retry starts no earlier than 5000 + 2000 ms after the failure, and nextAvailableAt
\* is then no earlier than the failure time plus that wait.
C4_FloodWaitRetrySucceeds ==
  \A k \in TaskIds :
    /\ FirstFloodThenOk(k) =>
         /\ tasks[k].result = [kind |-> "ok", task |-> k, attempt |-> 2, error |-> NoError,
                              value |-> SentMsgId(k)]
         /\ Len(tasks[k].starts) = 2
         /\ tasks[k].starts[2] >= tasks[k].fails[1].at + 5000 + 2000
         /\ telegramSendQueue.nextAvailableAt >= tasks[k].fails[1].at + 5000 + 2000
    /\ (Len(tasks[k].fails) = 1 /\ tasks[k].fails[1].error = FloodToken(<<5>>)) =>
         tasks[k].result.kind \in {"pending", "ok"}

C4_Witness == \E k \in TaskIds : FirstFloodThenOk(k)

\* C5 (as claimed): every failed attempt whose error carries a flood-wait duration of
\* s >= 0 seconds, made before the third attempt, is followed by a sleep of
\* s * 1000 + 2000 ms and another invocation instead of a rejection.
C5_EveryFloodWaitRetried ==
  \A k \in TaskIds : \A n \in 1..Len(tasks[k].fails) :
    LET s == extractFloodWaitSeconds(tasks[k].fails[n].error) IN
      (s >= 0 /\ n < 3) =>
        /\ ~(tasks[k].state = "rejected" /\ Len(tasks[k].fails) = n)
        /\ Len(tasks[k].starts) > n =>
             tasks[k].starts[n + 1] >= tasks[k].fails[n].at + s * 1000 + 2000

\* C6: a task is invoked at most 3 times per enqueue; when the third attempt fails
\* too, that error rejects the caller's promise at once, with no further sleep.
C6_AtMostThreeAttempts ==
  \A k \in TaskIds :
    /\ Len(tasks[k].starts) <= 3
    /\ Len(tasks[k].fails) = 3 =>
         /\ tasks[k].state = "rejected"
         /\ tasks[k].wake = Null
         /\ tasks[k].settledAt = tasks[k].fails[3].at
         /\ tasks[k].result.kind = "err"
         /\ tasks[k].result.error = tasks[k].fails[3].error

C6_Witness ==
  \E k \in TaskIds :
    /\ Len(tasks[k].fails) = 3
    /\ \A n \in 1..3 : extractFloodWaitSeconds(tasks[k].fails[n].error) > 0

\* C7: an attempt that fails with an error carrying no flood-wait duration is the
\* task's last: no sleep, no retry, and the caller's promise is rejected with that
\* error at the time of the failure (a task failing so at once is invoked exactly once).
C7_OtherErrorNotRetried ==
  \A k \in TaskIds : \A n \in 1..Len(tasks[k].fails) :
    extractFloodWaitSeconds(tasks[k].fails[n].error) = Null =>
      /\ Len(tasks[k].fails) = n
      /\ Len(tasks[k].starts) = n
      /\ tasks[k].state = "rejected"
      /\ tasks[k].wake = Null
      /\ tasks[k].settledAt = tasks[k].fails[n].at
      /\ tasks[k].result.kind = "err"
      /\ tasks[k].result.error = tasks[k].fails[n].error

C7_Witness ==
  \E k \in TaskIds :
    /\ Len(tasks[k].starts) = 1
    /\ Len(tasks[k].fails) = 1
    /\ tasks[k].fails[1].error = OtherError
    /\ tasks[k].state = "rejected"

GotOwnResult(j) ==
  /\ Len(tasks) >= j
  /\ Started(j)
  /\ Settled(tasks[j])
  /\ tasks[j].result.kind \in {"ok", "err"}
  /\ tasks[j].result.task = j

BehindRejected(j) ==
  /\ Len(tasks) >= j
  /\ \E i \in 1..(j - 1) : tasks[i].state = "rejected"

\* C8: provided every attempt settles, a task enqueued behind a rejected task
\* eventually starts and its caller receives that task's own result.
C8_RejectionNeverBlocks == \A j \in 2..MaxTasks : BehindRejected(j) ~> GotOwnResult(j)

C8_Witness == \E j \in 2..MaxTasks : BehindRejected(j) /\ GotOwnResult(j)

ClaimedInterval == IF nodeEnv = "test" THEN 0 ELSE 350

LastSettled(k) == Settled(tasks[k]) /\ \A j \in TaskIds : j > k => ~Settled(tasks[j])

\* C9: a success at time t sets nextAvailableAt to t + 350 (t + 0 when NODE_ENV is
\* 'test'), no later task makes its first attempt before that, and the result goes to
\* the caller that enqueued the task.
C9_MinIntervalAfterSuccess ==
  \A k \in TaskIds :
    tasks[k].state = "resolved" =>
      /\ LastSettled(k) =>
           telegramSendQueue.nextAvailableAt = tasks[k].settledAt + ClaimedInterval
      /\ \A j \in TaskIds :
           j > k /\ Started(j) => tasks[j].starts[1] >= tasks[k].settledAt + ClaimedInterval
      /\ tasks[k].result.kind = "ok"
      /\ tasks[k].result.task = k

\* in production the next task slept out the interval left by a success
C9_Witness ==
  /\ nodeEnv = "production"
  /\ Len(tasks) >= 2
  /\ tasks[1].state = "resolved"
  /\ Started(2)
  /\ tasks[2].starts[1] = tasks[1].settledAt + 350

(* ========================= properties of the relay ========================= *)
SendsInProgress ==
  Cardinality({k \in TaskIds : tasks[k].state = "running"})
    + Cardinality({p \in 1..Len(pokes) : pokes[p].pc = "sending"})

\* C2 (as claimed): at most one Telegram send issued by ForwardFeature is in
\* progress at any moment, relayed messages and poke notifications alike.
C2_AtMostOneSendInProgress == SendsInProgress <= 1

PassedPolicy(c) == calls[c].pc \in {"chat", "reply", "send", "save"}
                     \/ calls[c].outcome \in {"correlated", "failed", "unsent"}

SendStarted(c) == IF calls[c].task = 0 THEN FALSE ELSE Started(calls[c].task)

\* C3 (as claimed): of two messages of one pair delivered in order and both passing
\* every policy check, the send of the later one never starts before the send of
\* the earlier one.
C3_SendOrderFollowsDelivery ==
  \A i, j \in CallIds :
    (i < j /\ PassedPolicy(i) /\ PassedPolicy(j) /\ calls[i].msg.room = calls[j].msg.room
       /\ SendStarted(j)) => SendStarted(i)

Processed(c) == calls[c].outcome # "duplicate"

EarlierSame(c) == {d \in CallIds : d < c /\ calls[d].msg.id = calls[c].msg.id /\ Processed(d)}

PokeIds == 1..Len(pokes)
TgIds == 1..Len(tgCalls)
ModeIds == 1..Len(modeCmds)

\* the mode in force for a pair whose own forwardMode is own
EffectiveMode(own) == IF own # <<>> THEN own ELSE env_FORWARD_MODE

\* the mode in force for the pair of room when a handler made the check it recorded as seen
ModeAtCheck(room, seen) == EffectiveMode(modeLog[room][seen])

\* C11: a QQ message or poke whose pair had, when the handler checked it, an effective
\* forward mode (its own value, else the environment's) with '0' at index 0 is dropped:
\* no send is enqueued or made for it and no correlation is saved; a Telegram message
\* whose pair had '0' at index 1 is never handed to handleTGMessage.
C11_DisabledDirectionNotRelayed ==
  /\ \A c \in CallIds :
       (calls[c].modeSeen > 0 /\ ModeAtCheck(calls[c].msg.room, calls[c].modeSeen)[1] = "0")
         => /\ calls[c].outcome = "disabled" /\ calls[c].pc = "done"
            /\ calls[c].task = 0
            /\ \A k \in TaskIds : tasks[k].call # c
  /\ \A p \in PokeIds :
       (pokes[p].modeSeen > 0 /\ ModeAtCheck(pokes[p].groupId, pokes[p].modeSeen)[1] = "0")
         => pokes[p].pc = "done"
  /\ \A t \in TgIds :
       (tgCalls[t].modeSeen > 0 /\ ModeAtCheck(tgCalls[t].room, tgCalls[t].modeSeen)[2] = "0")
         => tgCalls[t].outcome = "disabled" /\ tgCalls[t].pc = "done"

\* a QQ message and a Telegram message of r1, which has no mode of its own, both dropped
\* under the environment's mode "00"
C11_Witness ==
  /\ forwardMap["r1"].forwardMode = <<>>
  /\ \E c \in CallIds : calls[c].msg.room = "r1" /\ calls[c].outcome = "disabled"
  /\ \E t \in TgIds : tgCalls[t].room = "r1" /\ tgCalls[t].outcome = "disabled"

\* C12 as stated: once a /mode command has assigned a value with '0' at index 0 to a
\* pair, no send for a QQ message of the pair starts.
C12_NoSendStartsAfterDisable ==
  [][\A k \in TaskIds :
       LET room == calls[tasks[k].call].msg.room IN
         (~Started(k) /\ Started(k)' /\ Len(modeLog[room]) > 1)
           => EffectiveMode(forwardMap[room].forwardMode)[1] # "0"]_vars

\* C12: a mode check made after a /mode command assigned a value to the pair reads that
\* value: a QQ message checked after a value with '0' at index 0 was assigned is
\* dropped with no send, one checked after '1' was assigned is not dropped as disabled,
\* and likewise a poke, and a Telegram message at index 1.  (A message whose check was
\* made before the assignment is not covered: its send may still start.)
C12_LaterChecksReadNewMode ==
  /\ \A c \in CallIds :
       calls[c].modeSeen > 1 =>
         IF modeLog[calls[c].msg.room][calls[c].modeSeen][1] = "0"
           THEN calls[c].outcome = "disabled" /\ calls[c].task = 0
           ELSE calls[c].outcome # "disabled"
  /\ \A p \in PokeIds :
       pokes[p].modeSeen > 1 =>
         (modeLog[pokes[p].groupId][pokes[p].modeSeen][1] = "0" => pokes[p].pc = "done")
  /\ \A t \in TgIds :
       tgCalls[t].modeSeen > 1 =>
         IF modeLog[tgCalls[t].room][tgCalls[t].modeSeen][2] = "0"
           THEN tgCalls[t].outcome = "disabled"
           ELSE tgCalls[t].outcome = "handed"

\* a message of r1 dropped as disabled by a check made after /mode forward 01, under an
\* environment that enables both directions
C12_Witness ==
  /\ env_FORWARD_MODE = <<"1", "1">>
  /\ \E c \in CallIds, m \in ModeIds :
       /\ calls[c].msg.room = "r1" /\ calls[c].modeSeen = 2 /\ calls[c].outcome = "disabled"
       /\ modeCmds[m].outcome = "updated" /\ modeCmds[m].room = "r1"

\* C20: handleTgMessage and handleModeCommand pass allowFallback = true to findByTG exactly
\* when no thread id was extracted, so a message that carries thread id T is handled
\* only through a binding whose thread id is T, never through the chat-level binding.
C20_FallbackOnlyWithoutThread ==
  /\ \A t \in TgIds :
       /\ tgCalls[t].allowFallback <=> (tgCalls[t].threadId = NoThread)
       /\ (tgCalls[t].threadId # NoThread /\ tgCalls[t].room # "")
            => forwardMap[tgCalls[t].room].tgThreadId = tgCalls[t].threadId
  /\ \A m \in ModeIds :
       modeCmds[m].lookedUp =>
         /\ modeCmds[m].allowFallback <=> (modeCmds[m].threadId = NoThread)
         /\ (modeCmds[m].threadId # NoThread /\ modeCmds[m].room # "")
              => forwardMap[modeCmds[m].room].tgThreadId = modeCmds[m].threadId

\* a message in thread 8 of chat 100, which has a chat-level binding, finds no pair,
\* and a /mode command sent in thread 7 reaches the binding of thread 7
C20_Witness ==
  /\ \E t \in TgIds : /\ tgCalls[t].msg.chatId = 100 /\ tgCalls[t].threadId = 8
                       /\ tgCalls[t].outcome = "nopair"
  /\ \E m \in ModeIds : modeCmds[m].threadId = 7 /\ modeCmds[m].room = "r4"

(* ======================= filters, correlation and outcomes ======================= *)
PairOf(c) == forwardMap[calls[c].msg.room]

\* the sender's id is an entry of the pair's blocklist (spaces around an entry apart)
OnBlocklist(c) ==
  /\ PairOf(c) # NoPair
  /\ \E i \in DOMAIN PairOf(c).ignoreSenders :
       LET entry == PairOf(c).ignoreSenders[i] IN
         /\ \E j \in DOMAIN entry : entry[j] = calls[c].msg.sender
         /\ \A j \in DOMAIN entry : entry[j] \in {" ", calls[c].msg.sender}

\* the pair's pattern is a valid regular expression that the text matches
MatchesIgnoreRegex(c) ==
  /\ PairOf(c) # NoPair
  /\ PairOf(c).ignoreRegex # <<>>
  /\ RegexCompiles(PairOf(c).ignoreRegex)
  /\ RegexTest(PairOf(c).ignoreRegex, calls[c].msg.text)

\* the pair's pattern is not a valid regular expression
InvalidIgnoreRegex(c) ==
  /\ PairOf(c) # NoPair
  /\ PairOf(c).ignoreRegex # <<>>
  /\ ~RegexCompiles(PairOf(c).ignoreRegex)

TasksOf(c) == {k \in TaskIds : tasks[k].call = c}

\* C13: a QQ message of a bound room whose sender is on the pair's blocklist, or whose
\* text matches the pair's valid ignoreRegex, never reaches chat resolution, reply
\* resolution or the queue: no send is made for it and no correlation is saved.
C13_BlockedOrFilteredDropped ==
  \A c \in CallIds :
    (OnBlocklist(c) \/ MatchesIgnoreRegex(c))
      => /\ calls[c].pc \in {"gateway", "done"}
         /\ calls[c].outcome \in {"pending", "duplicate", "command", "blocked", "filtered"}
         /\ calls[c].task = 0 /\ TasksOf(c) = {}
         /\ calls[c].replySeen = {}

\* one message dropped for its sender and one for its text, both handled to the end
C13_Witness ==
  /\ \E c \in CallIds : OnBlocklist(c) /\ calls[c].outcome = "blocked"
  /\ \E c \in CallIds : MatchesIgnoreRegex(c) /\ calls[c].outcome = "filtered"

\* C14: a message of a pair whose ignoreRegex does not compile, not dropped for the mode
\* or its sender, passes the policy checks as a message of a pair without a pattern
\* does: the check neither drops nor fails it, and it goes on to chat resolution.
C14_InvalidRegexDoesNotFilter ==
  \A c \in CallIds :
    (calls[c].modeSeen > 0 /\ InvalidIgnoreRegex(c)
       /\ ModeAtCheck(calls[c].msg.room, calls[c].modeSeen)[1] # "0" /\ ~OnBlocklist(c))
      => PassedPolicy(c)

\* a message of r4 whose text holds the text of the pattern is relayed and correlated
C14_Witness ==
  \E c \in CallIds : /\ InvalidIgnoreRegex(c) /\ calls[c].msg.text = PairOf(c).ignoreRegex
                      /\ calls[c].outcome = "correlated"

\* C15 as stated: the warning about an invalid ignoreRegex is logged at most once for a pair.
C15_InvalidRegexWarnedOnce == \A id \in PairIds : warnings[id] <= 1

Resolved(k) == tasks[k].state = "resolved" /\ tasks[k].result.value # Null

\* C16: every row of the correlation store was written after the queued send of a handled
\* message resolved with a sent-message descriptor, and holds that message's ids; no send
\* has two rows; a message whose send rejected or resolved with nothing has no row.
C16_CorrelationOnlyAfterSend ==
  /\ \A i \in DOMAIN mapper :
       \E c \in CallIds :
         /\ calls[c].outcome = "correlated" /\ calls[c].task # 0
         /\ Resolved(calls[c].task)
         /\ mapper[i].tgMsgId = tasks[calls[c].task].result.value
         /\ mapper[i].qqMsgId = calls[c].msg.id /\ mapper[i].qqRoomId = calls[c].msg.room
  /\ \A i, j \in DOMAIN mapper : mapper[i].tgMsgId = mapper[j].tgMsgId => i = j
  /\ \A c \in CallIds :
       (calls[c].task # 0 /\ Settled(tasks[calls[c].task]) /\ ~Resolved(calls[c].task))
         => /\ calls[c].pc # "save" /\ calls[c].outcome # "correlated"
            /\ \A i \in DOMAIN mapper : mapper[i].qqMsgId # calls[c].msg.id

\* one message correlated, and one whose send resolved with nothing, handled to the end
C16_Witness ==
  /\ Len(mapper) = 1
  /\ \E c \in CallIds : /\ calls[c].pc = "done" /\ calls[c].task # 0
                         /\ tasks[calls[c].task].state = "resolved"
                         /\ tasks[calls[c].task].result.value = Null

\* the Telegram ids stored now for the message that call c replies to
TargetIds(c) == Correlated(Rows(mapper), PairOf(c).instanceId, calls[c].msg.room,
                           calls[c].msg.reply)

\* C17: a QQ message that arrives after the correlation a1 <-> b1 of its reply target was
\* saved under its (instance, room) is sent with replyTo = b1; a message whose reply
\* target has no stored correlation is sent all the same, with no replyTo.
C17_ReplyResolvedFromCorrelation ==
  \A c \in CallIds :
    calls[c].task # 0 =>
      /\ calls[c].known # {} => SendReplyTo(calls[c].task) \in TargetIds(c)
      /\ TargetIds(c) = {} => SendReplyTo(calls[c].task) = Null

\* m2, a reply to m1, has been sent with the Telegram id of m1's relay as replyTo
C17_Witness ==
  \E c, d \in CallIds :
    /\ calls[c].outcome = "correlated" /\ calls[d].msg.reply = calls[c].msg.id
    /\ calls[d].known # {} /\ calls[d].task # 0 /\ Started(calls[d].task)
    /\ SendReplyTo(calls[d].task) = tasks[calls[c].task].result.value

Outcomes(o) == {c \in CallIds : calls[c].outcome = o}

\* C18: when the queued send of a message rejects (an error that is no flood wait, or
\* the third flood wait), handleQQMessage ends as failed: the failure metric counts
\* that message once and the success metric not at all, the message gets no second
\* send, and a message whose own send resolved is relayed whatever happened to others.
C18_SendFailureCountedOnce ==
  /\ performanceMonitor.errors = Cardinality(Outcomes("failed"))
  /\ performanceMonitor.messages = Cardinality(Outcomes("correlated"))
  /\ \A c \in CallIds :
       (calls[c].task # 0 /\ tasks[calls[c].task].state = "rejected")
         => /\ calls[c].pc \in {"send", "done"}
            /\ calls[c].outcome = IF calls[c].pc = "done" THEN "failed" ELSE "pending"
            /\ TasksOf(c) = {calls[c].task}
  /\ \A c \in CallIds :
       (calls[c].task # 0 /\ Resolved(calls[c].task) /\ calls[c].pc = "done")
         => calls[c].outcome \in {"correlated", "failed"}

\* the first message failed on its third flood wait, the second was relayed after it
C18_Witness ==
  \E c, d \in CallIds :
    /\ c < d /\ calls[c].outcome = "failed" /\ calls[c].task # 0
    /\ Len(tasks[calls[c].task].fails) = 3
    /\ calls[d].outcome = "correlated"
    /\ performanceMonitor = [messages |-> 1, errors |-> 1]

\* C19 as stated: a handled QQ event ends dropped with no send, correlated, or failed
\* with the failure metric incremented.
C19_OneOfThreeOutcomes ==
  \A c \in CallIds :
    calls[c].pc = "done" =>
      \/ /\ calls[c].outcome \in {"duplicate", "command", "nopair", "disabled", "blocked",
                                    "filtered"}
         /\ TasksOf(c) = {}
      \/ calls[c].outcome = "correlated"
      \/ calls[c].outcome = "failed" /\ performanceMonitor.errors > 0

(* ======================= bind operations ======================= *)
\* the records of pairs that bind (chatId, threadId) to a room other than qqRoomId
BoundElsewhere(pairs, qqRoomId, chatId, threadId) ==
  {p \in pairs : p.tgChatId = chatId /\ p.tgThreadId = threadId /\ p.qqRoomId # qqRoomId}

\* the calls of the interactive flow that got as far as the conflict check
AtConflictCheck(c) ==
  /\ c.text[1] # "/"
  /\ c.reply # "timeout"
  /\ IsGroupNumber(trim(c.text))

\* C21: a bind of a (chat, thread) that is bound to a different room leaves the directory
\* as it was and returns the existing record, so that exactly one record holds the
\* (chat, thread) and it still points to the first room; the interactive flow answers
\* such an input with the conflict reply and does not call forwardMap.add at all
C21_ConflictLeavesDirectoryUnchanged ==
  /\ \A i \in DOMAIN addLog :
       LET a == addLog[i]
           others == BoundElsewhere(a.before, a.qqRoomId, a.tgChatId, a.tgThreadId)
       IN others # {} =>
            /\ a.via = "direct"
            /\ a.after = a.before
            /\ a.rec \in others
            /\ {p \in a.after : p.tgChatId = a.tgChatId /\ p.tgThreadId = a.tgThreadId}
                 = {a.rec}
  /\ \A b \in DOMAIN bindCalls :
       LET c == bindCalls[b]
       IN (/\ AtConflictCheck(c)
           /\ BoundElsewhere(c.before, BigInt(trim(c.text)), c.chatId, c.threadId) # {})
            => /\ c.reply = "occupied"
               /\ c.rec = NoPair

\* room 5 is bound to chat 100 without a thread, and a sender of the interactive flow
\* has answered the prompt for the same chat with room 6
C21_Witness ==
  /\ forwardPairs = {BindPair(5, 100, NoThread)}
  /\ \E b \in DOMAIN bindCalls :
       /\ bindCalls[b].pc = "done"
       /\ bindCalls[b].before = {BindPair(5, 100, NoThread)}
       /\ bindCalls[b].threadId = NoThread
       /\ bindCalls[b].reply = "occupied"
       /\ BigInt(trim(bindCalls[b].text)) = 6
  /\ \A i \in DOMAIN addLog : addLog[i].via = "direct"

\* C22: after any sequence of bind operations, direct or through the interactive flow,
\* every (chat, thread) is bound to at most one room and every room to at most one
\* (chat, thread)
C22_BindingsOneToOne ==
  \A p, q \in forwardPairs :
    /\ (p.tgChatId = q.tgChatId /\ p.tgThreadId = q.tgThreadId) => p = q
    /\ p.qqRoomId = q.qqRoomId => p = q

\* the interactive flow has moved a bound room to another thread, and a direct bind of
\* the other room to that thread has been refused
C22_Witness ==
  /\ Len(addLog) = 2
  /\ addLog[1].via = "direct" /\ addLog[2].via = "flow"
  /\ addLog[1].qqRoomId = addLog[2].qqRoomId
  /\ addLog[1].tgThreadId # addLog[2].tgThreadId
  /\ forwardPairs = {addLog[2].rec}
  /\ \E b \in DOMAIN bindCalls : bindCalls[b].reply = "success"

(* ======================= conversion to NapCat segments ======================= *)
\* the content types toNapCat has a case for
Emits(content) == content.type \in {"text", "image", "at", "reply"}

\* the index in the result of the segment of content entry i
SegmentIndex(message, i) == Cardinality({j \in 1..i : Emits(message[j])})

\* '@name', with no doubled '@'
AtText(name) == IF name # <<>> /\ name[1] = "@" THEN name ELSE <<"@">> \o name

\* the id and the name a mention is given with
SuppliedId(c) == IF c.userId # Undefined THEN c.userId
                 ELSE IF c.targetId # Undefined THEN c.targetId ELSE <<>>

SuppliedName(c) == IF c.userName # Undefined THEN c.userName
                   ELSE IF c.name # Undefined THEN c.name ELSE trim(SuppliedId(c))

\* every entry with a case has its segment at the place its order gives it, and nothing
\* else is emitted
InContentOrder ==
  LET m == napcat.message
      segs == napcat.segments
  IN /\ Len(segs) = SegmentIndex(m, Len(m))
     /\ \A i \in DOMAIN m :
          Emits(m[i]) =>
            LET seg == segs[SegmentIndex(m, i)]
            IN CASE m[i].type = "text" -> seg = [type |-> "text", data |-> [text |-> m[i].text]]
                 [] m[i].type = "image" -> seg.type = "image" /\ seg.data.file = m[i].url
                 [] m[i].type = "reply" -> seg.type = "reply"
                 [] OTHER -> seg.type \in {"at", "text"}

\* the segment of mention i is the one numeric(id) selects
MentionSegments(numeric(_)) ==
  LET m == napcat.message
  IN \A i \in DOMAIN m :
       m[i].type = "at" =>
         LET seg == napcat.segments[SegmentIndex(m, i)]
         IN IF numeric(SuppliedId(m[i]))
              THEN seg = [type |-> "at", data |-> [qq |-> trim(SuppliedId(m[i]))]]
              ELSE seg = [type |-> "text",
                          data |-> [text |-> AtText(trim(SuppliedName(m[i])))]]

DigitsOnly(id) == id # <<>> /\ \A k \in DOMAIN id : IsDigit(id[k])

DigitsOnlyTrimmed(id) == DigitsOnly(trim(id))

\* C23 as stated: toNapCat emits an 'at' segment exactly when the user id of the mention
\* consists only of digits, and otherwise one text segment '@name'; the segments follow the
\* order of the content
C23_AtSegmentIffDigitsOnly == InContentOrder /\ MentionSegments(DigitsOnly)

\* C23: toNapCat emits an 'at' segment, carrying the trimmed id, exactly when the user id
\* of the mention consists only of digits once surrounding whitespace is removed, and
\* otherwise one text segment '@name' (the supplied name, else the trimmed id, trimmed and
\* with no doubled '@'); the segments follow the order of the content
C23_AtSegmentIffTrimmedIdNumeric == InContentOrder /\ MentionSegments(DigitsOnlyTrimmed)

\* a mention with a padded numeric id, emitted as 'at', followed by a mention of a name,
\* emitted as text
C23_Witness ==
  /\ napcat.message = <<At(<<" ", "7">>, Undefined), At(<<"b", "o", "b">>, <<"@", "a", "l">>)>>
  /\ napcat.segments = <<[type |-> "at", data |-> [qq |-> <<"7">>]],
                         [type |-> "text", data |-> [text |-> <<"@", "a", "l">>]]>>

(* ======================= mention display names ======================= *)
\* the name the stated priority gives the mention o of a group message: the supplied
\* name when it differs from the id, then the card of the member, then the nickname,
\* then the id
NameByPriority(o, members) ==
  LET userId == UserIdOf(o)
      supplied == TrimOrEmpty(o.userName)
      info == members[userId]
  IN IF supplied # <<>> /\ supplied # userId THEN supplied
     ELSE IF info.ok /\ TrimOrEmpty(info.card) # <<>> THEN TrimOrEmpty(info.card)
     ELSE IF info.ok /\ TrimOrEmpty(info.nickname) # <<>> THEN TrimOrEmpty(info.nickname)
     ELSE userId

\* the entries populateAtDisplayNames is to leave as they are
Untouched(chatType, o) ==
  \/ chatType # "group"
  \/ o.type # "at"
  \/ UserIdOf(o) \in {<<>>, <<"a", "l", "l">>}

\* C24: when populateAtDisplayNames has returned, at most one getGroupMemberInfo lookup
\* was made for each user id, every mention carries the name the priority gives it
\* (supplied name different from the id, then card, then nickname, then the id, which is
\* also the result of a failed lookup), and mentions of 'all' and the content of
\* non-group messages are as they were
C24_MentionNamesByPriority ==
  populate.pc = "done" =>
    /\ \A id \in MemberIds :
         Cardinality({k \in DOMAIN populate.lookups : populate.lookups[k] = id}) <= 1
    /\ \A i \in DOMAIN populate.content :
         LET o == populate.original[i]
         IN IF Untouched(populate.chatType, o) THEN populate.content[i] = o
            ELSE populate.content[i].userName = NameByPriority(o, populate.members)

(* ======================= permissions ======================= *)
\* the calls that ask for a row to be written: grantPermission and the route
GrantRequests == {i \in DOMAIN permCalls : permCalls[i].op \in {"grant", "route"}}

GrantCalls == {i \in DOMAIN permCalls : permCalls[i].op = "grant"}

\* C25: a row of level SUPER_ADMIN is only ever written at the request of the owner of
\* the system (ADMIN_QQ / ADMIN_TG); a grant of SUPER_ADMIN asked for by anyone else is
\* refused and stores nothing
C25_SuperAdminOnlyByOwner ==
  /\ \A u \in DOMAIN userPermissions :
       userPermissions[u].permissionLevel = SUPER_ADMIN
         => isSystemOwner(userPermissions[u].grantedBy)
  /\ \A i \in GrantRequests :
       (permCalls[i].permissionLevel = SUPER_ADMIN /\ ~isSystemOwner(permCalls[i].operatorId))
         => /\ permCalls[i].pc = "done"
            /\ ~permCalls[i].result
            /\ ~permCalls[i].stored

\* C26: grantPermission stores a row only when the level of the operator is at least as
\* privileged as the level granted (operatorLevel <= permissionLevel); a grant of a higher
\* level returns false, stores nothing and writes no audit row
C26_NoGrantAboveOwnLevel ==
  \A i \in GrantCalls :
    /\ permCalls[i].stored => permCalls[i].operatorLevel <= permCalls[i].permissionLevel
    /\ permCalls[i].operatorLevel > permCalls[i].permissionLevel
         => /\ permCalls[i].pc = "done"
            /\ ~permCalls[i].result
            /\ ~permCalls[i].stored
            /\ \A k \in DOMAIN permissionAuditLogs : permissionAuditLogs[k].call # i

\* an operator who is ADMIN has granted ADMIN, the row and its audit row are written, and
\* the grant of SUPER_ADMIN by the user who got it has been refused
C26_Witness ==
  /\ Len(permCalls) = 2
  /\ permCalls[1].op = "grant" /\ permCalls[1].operatorLevel = ADMIN
  /\ permCalls[1].result /\ permCalls[1].stored
  /\ \E k \in DOMAIN permissionAuditLogs : permissionAuditLogs[k].call = 1
  /\ userPermissions[PermKey(permCalls[1].targetUserId, 0)].grantedBy
       = permCalls[1].operatorId
  /\ permCalls[2].op = "grant" /\ permCalls[2].operatorId = permCalls[1].targetUserId
  /\ permCalls[2].operatorLevel = ADMIN /\ permCalls[2].permissionLevel = SUPER_ADMIN
  /\ permCalls[2].pc = "done" /\ ~permCalls[2].result

\* the documented default of cacheExpireMinutes, in milliseconds
DefaultCacheExpireMs == 60 * 60 * 1000

\* C27: with cacheExpireMinutes not set, no getPermissionLevel call returns a cached value
\* more than 60 minutes after the entry was cached
C27_CachedEntryExpiresAfterAnHour ==
  (Installed /\ permissionOptions.cacheExpireMinutes = Null) =>
    \A i \in DOMAIN permCalls :
      (permCalls[i].op = "level" /\ permCalls[i].from = "cache")
        => permCalls[i].at - permCalls[i].cachedAt <= DefaultCacheExpireMs

\* the same with cacheExpireMinutes set to 60
CachedEntryExpiresWhenConfigured ==
  (Installed /\ permissionOptions.cacheExpireMinutes = 60) =>
    \A i \in DOMAIN permCalls :
      (permCalls[i].op = "level" /\ permCalls[i].from = "cache")
        => permCalls[i].at - permCalls[i].cachedAt < DefaultCacheExpireMs

(* ======================= TTLCache ======================= *)
\* the set calls of key before call i that no delete of key follows
SetsBefore(i, key) ==
  {j \in 1..(i - 1) :
     /\ cacheOps[j].op = "set" /\ cacheOps[j].key = key
     /\ ~\E d \in (j + 1)..(i - 1) : cacheOps[d].op = "delete" /\ cacheOps[d].key = key}

\* what the sets made so far let call i find for its key: the value of the last set
\* while its ttl has not run out
ValueDue(i) ==
  LET sets == SetsBefore(i, cacheOps[i].key)
      j == CHOOSE x \in sets : \A y \in sets : y <= x
      ttl == IF cacheOps[j].result.ttl # Null THEN cacheOps[j].result.ttl ELSE 60000
  IN IF sets = {} THEN NotFound
     ELSE IF cacheOps[i].at <= cacheOps[j].at + ttl THEN cacheOps[j].result.value
     ELSE NotFound

\* the entry of key k that call i found was past its expiry
FoundExpired(i, k) ==
  k \in DOMAIN cacheOps[i].before /\ cacheOps[i].before[k].expires < cacheOps[i].at

\* C28: get and has never report a value whose expiry is before the current time: after
\* set(k, v, ttl), get(k) returns v until ttl has run out and undefined afterwards, a
\* later set replaces value and expiry, the get (or has) that finds an expired entry
\* removes it, and size counts every entry, expired ones included, that no get, has,
\* cleanup or delete has removed
C28_TtlCacheReportsLiveEntriesOnly ==
  /\ \A i \in DOMAIN cacheOps :
       LET c == cacheOps[i]
       IN /\ c.op = "get" => c.result = ValueDue(i)
          /\ c.op = "has" => c.result = (ValueDue(i) # NotFound)
          /\ (c.op = "get" /\ c.result # NotFound) => c.before[c.key].expires >= c.at
          /\ (c.op \in {"get", "has"} /\ FoundExpired(i, c.key))
               => c.key \notin DOMAIN c.after
          /\ c.op = "size" => c.result = Cardinality(DOMAIN c.before)
          /\ c.op = "cleanup" =>
               DOMAIN c.after = {k \in DOMAIN c.before : ~FoundExpired(i, k)}
          /\ \A k \in DOMAIN c.before \ DOMAIN c.after :
               \/ c.op \in {"get", "has"} /\ c.key = k /\ FoundExpired(i, k)
               \/ c.op = "cleanup" /\ FoundExpired(i, k)
               \/ c.op = "delete" /\ c.key = k
          /\ c.before = IF i = 1 THEN <<>> ELSE cacheOps[i - 1].after
  /\ cacheOps # <<>> => cache = cacheOps[Len(cacheOps)].after

\* an entry set with ttl 1 is past its expiry two milliseconds later: size still counts
\* it, and the get that finds it returns undefined and removes it
C28_Witness ==
  /\ Len(cacheOps) = 3
  /\ cacheOps[1].op = "set" /\ cacheOps[1].key = "k1" /\ cacheOps[1].result.ttl = 1
  /\ cacheOps[2].op = "size" /\ cacheOps[2].at = cacheOps[1].at + 2 /\ cacheOps[2].result = 1
  /\ cacheOps[3].op = "get" /\ cacheOps[3].key = "k1" /\ cacheOps[3].result = NotFound
  /\ cache = <<>>

(* ======================= GatewayRuntime ======================= *)
\* the calls that return the server and the publisher
Starting == {i \in DOMAIN gatewayCalls : gatewayCalls[i].op # "unregisterInstance"}

\* C29: across any sequence of ensureStarted, registerInstance and unregisterInstance at
\* most one GatewayServer and one EventPublisher are constructed and every call returns
\* that same pair; unregisterInstance(id) removes the executor and the pairs provider of
\* id and leaves those of the other instances as they were
C29_OneServerAndPublisher ==
  /\ GatewayRuntime.servers <= 1
  /\ GatewayRuntime.publishers <= 1
  /\ \A i \in Starting :
       /\ gatewayCalls[i].server = [id |-> 1, port |-> gatewayCalls[i].server.port]
       /\ gatewayCalls[i].publisher = [id |-> 1, server |-> 1]
       /\ \A j \in Starting : /\ gatewayCalls[j].server = gatewayCalls[i].server
                              /\ gatewayCalls[j].publisher = gatewayCalls[i].publisher
  /\ \A i \in DOMAIN gatewayCalls :
       LET c == gatewayCalls[i]
       IN c.op = "unregisterInstance" =>
            /\ c.instanceId \notin DOMAIN c.after.executors
            /\ c.instanceId \notin DOMAIN c.after.pairsProvider
            /\ \A k \in GatewayInstances \ {c.instanceId} :
                 /\ k \in DOMAIN c.before.executors
                      => (k \in DOMAIN c.after.executors
                          /\ c.after.executors[k] = c.before.executors[k])
                 /\ k \in DOMAIN c.before.pairsProvider
                      => k \in DOMAIN c.after.pairsProvider
            /\ DOMAIN c.after.executors \subseteq DOMAIN c.before.executors
            /\ DOMAIN c.after.pairsProvider \subseteq DOMAIN c.before.pairsProvider

\* both instances were registered with their pairs, and instance 1 has been unregistered
C29_Witness ==
  /\ Len(gatewayCalls) = 3
  /\ gatewayCalls[3].op = "unregisterInstance" /\ gatewayCalls[3].instanceId = 1
  /\ DOMAIN gatewayCalls[3].before.executors = {1, 2}
  /\ DOMAIN gatewayCalls[3].before.pairsProvider = {1, 2}
  /\ DOMAIN GatewayRuntime.executors = {2}
  /\ DOMAIN GatewayRuntime.pairsProvider = {2}
  /\ GatewayRuntime.servers = 1

(* ======================= cooldown ======================= *)
\* the allowed calls of the key of call i that came before it
AllowedBefore(i) ==
  {j \in 1..(i - 1) : cooldownCalls[j].key = cooldownCalls[i].key /\ cooldownCalls[j].allowed}

\* the time of the last allowed call of the key of call i before it
LastAllowedAt(i) ==
  cooldownCalls[CHOOSE j \in AllowedBefore(i) : \A k \in AllowedBefore(i) : k <= j].at

\* C30: for each key, a call is allowed only when at least durationMs has passed since
\* the last allowed call of that key (and is allowed then); a denied call reports the
\* time that remains, which is positive, and leaves the cooldown as it was; the calls
\* of other keys play no part; the wrapped handler is not invoked on a denied call
C30_CooldownPerKey ==
  \A i \in DOMAIN cooldownCalls :
    LET c == cooldownCalls[i]
    IN /\ c.allowed <=> (AllowedBefore(i) = {} \/ c.at - LastAllowedAt(i) >= 3000)
       /\ c.allowed => c.retryInMs = 0 /\ c.handler
       /\ ~c.allowed => /\ c.retryInMs = LastAllowedAt(i) + 3000 - c.at
                        /\ c.retryInMs > 0
                        /\ ~c.handler
                        /\ c.notice

\* key a: allowed, denied 2999 ms later with one millisecond to go, allowed once the
\* duration has passed
C30_Witness ==
  /\ Len(cooldownCalls) = 3
  /\ \A i \in 1..3 : cooldownCalls[i].key = "a" /\ cooldownCalls[i].pc = "done"
  /\ cooldownCalls[1].allowed
  /\ ~cooldownCalls[2].allowed /\ cooldownCalls[2].retryInMs = 1
  /\ cooldownCalls[3].allowed /\ cooldownCalls[3].at = cooldownCalls[1].at + 3000

(* ---- the guards of a command ---- *)
\* the guards of the options, in the order they are checked, that the event fails
FailedGuards(options, event) ==
  LET guards == <<
        <<"wrongPlatform", options.platform \in {"qq", "tg"} /\ options.platform # event.platform>>,
        <<"ownerOnly", options.requireOwner /\ ~event.isOwner>>,
        <<"adminOnly", options.requireAdmin /\ ~event.isAdmin /\ ~event.isOwner>>,
        <<"missingReply", options.requireReply /\ event.reply \notin {"quote", "rawId"}>> >>
  IN SelectSeq(guards, LAMBDA g : g[2])

\* the guards and the wrapped handler of the latest call, as far as the call has come
GuardsAndHandler ==
  LET c == guardCall
      failed == FailedGuards(c.options, c.event)
  IN /\ c.handler = 1 <=> failed = <<>>
     /\ c.handler \in {0, 1}
     /\ failed # <<>> =>
          /\ c.replies = IF c.options.silent THEN <<>> ELSE <<failed[1][1]>>
          /\ c.onError = 0
     /\ ~c.threw => c.onError = 0 /\ (failed = <<>> => c.replies = <<>>)
     /\ c.threw /\ c.options.onError => c.onError = 1 /\ c.replies = <<>>

\* C31 as stated: withCommandGuards invokes the wrapped handler only when every
\* configured guard passes; on the first failing guard, in the order platform, owner,
\* admin, reply, it replies once (unless silent) and returns; an exception of the
\* handler is handed to onError, else answered with the error message
C31_GuardsThenHandlerThenErrorReply ==
  guardCall.pc \notin {"unwrapped", "idle"} =>
    /\ GuardsAndHandler
    /\ guardCall.threw /\ ~guardCall.options.onError =>
         guardCall.onError = 0 /\ guardCall.replies = <<"error">>

\* C31 amended: as above, but an exception of the handler without onError is answered
\* with the error message unless the options are silent, and then with nothing
C31_GuardsThenHandlerThenErrorReplyUnlessSilent ==
  guardCall.pc \notin {"unwrapped", "idle"} =>
    /\ GuardsAndHandler
    /\ guardCall.threw /\ ~guardCall.options.onError =>
         /\ guardCall.onError = 0
         /\ guardCall.replies = IF guardCall.options.silent THEN <<>> ELSE <<"error">>

\* an owner who is not admin has passed requireAdmin, and the handler has thrown with
\* no onError under options that are not silent
C31_Witness ==
  /\ guardCall.pc = "done"
  /\ guardCall.options.requireAdmin /\ guardCall.event.isOwner /\ ~guardCall.event.isAdmin
  /\ guardCall.options.requireReply
  /\ guardCall.threw /\ ~guardCall.options.onError /\ ~guardCall.options.silent
  /\ guardCall.replies = <<"error">>

(* ---- the /mode command and the stored modes ---- *)
ModePairs == {r \in DOMAIN forwardMap : forwardMap[r] # NoPair}

ModeValues == { <<"0", "0">>, <<"0", "1">>, <<"1", "0">>, <<"1", "1">> }

\* the command may change a mode: its sender administers the instance, its value has
\* two flags, its type names a mode and its chat is bound
MayChange(m) ==
  /\ modeCmds[m].cmd.sender = "owner"
  /\ modeCmds[m].cmd.value \in ModeValues
  /\ modeCmds[m].cmd.type \in {"nickname", "forward"}
  /\ modeCmds[m].room # ""

\* the modes of pair r in memory and in the table
Modes(r) ==
  [memory |-> [forwardMode |-> forwardMap[r].forwardMode,
               nicknameMode |-> forwardMap[r].nicknameMode],
   stored |-> db_forwardPair[forwardMap[r].id]]

\* this step is the continuation of the update of command m, which succeeded, and it
\* leaves the mode the command names at the value of the command, in memory and in the
\* table, and every other mode as it was
UpdatedBy(m, r) ==
  LET field == modeCmds[m].cmd.type
      other == IF field = "forward" THEN "nicknameMode" ELSE "forwardMode"
      name == IF field = "forward" THEN "forwardMode" ELSE "nicknameMode"
  IN /\ MayChange(m)
     /\ modeCmds[m].pc = "db" /\ modeCmds'[m].outcome = "updated"
     /\ modeCmds[m].room = r
     /\ Modes(r)'.stored[name] = modeCmds[m].cmd.value
     /\ Modes(r)'.memory[name] = modeCmds[m].cmd.value
     /\ Modes(r)'.stored[other] = Modes(r).stored[other]
     /\ Modes(r)'.memory[other] = Modes(r).memory[other]

\* C32: handleModeCommand changes the mode of the pair in memory only after the
\* database update has succeeded, and to the same value; a command of a sender who is
\* not admin, with a value that is not two characters of '0'/'1', with a type other
\* than 'nickname' and 'forward', in a chat without pair, or whose update throws,
\* leaves the stored and the in-memory modes unchanged
C32_ModeChangedOnlyAfterStoredUpdate ==
  [][ /\ \A r \in ModePairs :
           Modes(r)' # Modes(r) => \E m \in 1..Len(modeCmds) : UpdatedBy(m, r)
      /\ \A m \in 1..Len(modeCmds') :
           ~MayChange(m)' => modeCmds'[m].outcome \in {"denied", "usage", "nopair", "unknown"}
    ]_vars

\* one command has changed the forward mode of r1 in the table and in memory, and the
\* update of another has thrown
C32_Witness ==
  /\ \E m \in 1..Len(modeCmds) :
       /\ modeCmds[m].outcome = "updated" /\ modeCmds[m].room = "r1"
       /\ modeCmds[m].cmd.value = <<"0", "1">>
  /\ \E m \in 1..Len(modeCmds) : modeCmds[m].outcome = "failed"
  /\ db_forwardPair[1].forwardMode = <<"0", "1">>
  /\ forwardMap["r1"].forwardMode = <<"0", "1">>

(* ---- a grant and the level read after it ---- *)
\* call j reads the level of the target of grant i for the instance of the grant, after
\* the grant has returned true, and it is the first call to do so; no other call has
\* asked for a row of the target to be written
NextLevelAfterGrant(i, j) ==
  /\ permCalls[i].op = "grant" /\ permCalls[i].result
  /\ permCalls[j].op = "level" /\ i \in permCalls[j].returned
  /\ permCalls[j].userId = permCalls[i].targetUserId
  /\ permCalls[j].instanceId = permCalls[i].instanceId
  /\ \A k \in 1..(j - 1) :
       /\ (k # i /\ permCalls[k].op \in {"grant", "route"})
            => permCalls[k].targetUserId # permCalls[i].targetUserId
       /\ (permCalls[k].op = "level" /\ i \in permCalls[k].returned)
            => \/ permCalls[k].userId # permCalls[i].targetUserId
               \/ permCalls[k].instanceId # permCalls[i].instanceId

\* the user owns neither the system nor the instance
NoOwner(userId, instanceId) ==
  /\ userId.raw \notin {env_ADMIN_QQ, env_ADMIN_TG}
  /\ instanceId = 0 \/ userId.raw # InstanceOwner(instanceId)

\* C33: after grantPermission(target, L, instance) has returned true, the next
\* getPermissionLevel(target, instance) returns L for a target who owns neither the
\* system nor the instance, whatever was cached before
C33_GrantedLevelReadBack ==
  \A i, j \in DOMAIN permCalls :
    (NextLevelAfterGrant(i, j) /\ NoOwner(permCalls[j].userId, permCalls[j].instanceId))
      => permCalls[j].level = permCalls[i].permissionLevel

(* ---- a rejected task and nextAvailableAt ---- *)
\* the tasks before j that have resolved
ResolvedBefore(j) == {k \in 1..(j - 1) : tasks[k].state = "resolved"}

Max(S) == CHOOSE x \in S : \A y \in S : x >= y

\* nextAvailableAt is where the last task that resolved before j left it, and 0 when
\* none has resolved
LeftByLastSuccess(j) ==
  telegramSendQueue.nextAvailableAt =
    IF ResolvedBefore(j) = {} THEN 0
    ELSE tasks[Max(ResolvedBefore(j))].settledAt + ClaimedInterval

\* task j, queued behind a task that rejected: until it settles nextAvailableAt is where
\* the last success left it, and that interval was over when the rejected task made its
\* attempt, so task j does not sleep
SleepsOutLastSuccess(j) ==
  (tasks[j - 1].state = "rejected" /\ ~Settled(tasks[j])) =>
    /\ LeftByLastSuccess(j)
    /\ telegramSendQueue.nextAvailableAt <= tasks[j - 1].settledAt
    /\ tasks[j].state # "waitInterval"

\* C34: a queued task that rejects leaves nextAvailableAt unchanged: only a task that
\* resolves moves it, so the task queued behind a rejected one is delayed only by the
\* interval left over from the last successful send
C34_RejectionLeavesNextAvailableAt ==
  [][ /\ \A k \in TaskIds :
           (k <= Len(tasks) /\ tasks[k].state # "rejected" /\ tasks'[k].state = "rejected")
             => telegramSendQueue'.nextAvailableAt = telegramSendQueue.nextAvailableAt
      /\ telegramSendQueue'.nextAvailableAt # telegramSendQueue.nextAvailableAt
           => \E k \in 1..Len(tasks) :
                tasks[k].state = "running" /\ tasks'[k].state = "resolved"
      /\ \A j \in 2..Len(tasks') : SleepsOutLastSuccess(j)'
    ]_vars

\* in production the first task has resolved, the second has slept out the interval and
\* rejected, and the third has made its attempt at the time of the rejection
C34_Witness ==
  /\ nodeEnv = "production"
  /\ Len(tasks) >= 3
  /\ tasks[1].state = "resolved"
  /\ tasks[2].state = "rejected"
  /\ tasks[3].state = "running"
  /\ tasks[3].starts[1] = tasks[2].settledAt
  /\ telegramSendQueue.nextAvailableAt = tasks[1].settledAt + 350

(* ---- a reply to a message whose relay is under way ---- *)
\* call d handles a reply to the message of the earlier call c of the same room
RepliesTo(d, c) ==
  /\ c < d
  /\ calls[d].msg.room = calls[c].msg.room
  /\ calls[d].msg.reply = calls[c].msg.id

\* C35: when m2 replies to m1 of the same room, m1 was handled before m2 and m1 has been
\* relayed, then the send of m2 carries the id of the relayed copy of m1 as replyTo,
\* even when m2 arrived while the send of m1 was queued or its correlation not yet saved
C35_ReplyToMessageUnderWay ==
  \A c, d \in CallIds :
    (RepliesTo(d, c) /\ calls[c].outcome = "correlated"
       /\ calls[d].task # 0 /\ Started(calls[d].task))
      => SendReplyTo(calls[d].task) = tasks[calls[c].task].result.value

(* ---- the binding state and the answers to the bind prompt ---- *)
\* the calls of forwardMap.add made for answers to the bind prompt
FlowBinds == {i \in DOMAIN addLog : addLog[i].via = "flow"}

\* C36: the binding state of a sender is consumed by the next text message of the sender
\* that is no command: whatever the branch, the call deletes the state, so the prompts
\* answered lead to at most one forwardMap.add call each
C36_BindStateConsumedOnce ==
  /\ \A b \in DOMAIN bindCalls :
       (bindCalls[b].pc = "done" /\ bindCalls[b].text[1] # "/") => bindCalls[b].deleted
  /\ Cardinality(FlowBinds) <= stateManager.prompts

(* ---- the permission check of a command ---- *)
\* the latest command call, once checkPermission has returned
Decided == commands.pc \notin {"idle", "check"}

\* the handler is invoked only when allowed; the legacy check asks an admin sender for
\* a command marked adminOnly or of level 0 or 1; a denial is replied on Telegram only
HandlerOnlyWhenAllowed ==
  /\ commands.handler = 1 => commands.allowed
  /\ ~commands.allowed => (commands.handler = 0 /\ commands.pc # "handler")
  /\ commands.via = "legacy" =>
       (commands.allowed <=>
          (commands.isAdmin \/ ~(commands.command.adminOnly \/ commands.command.level \in {0, 1})))
  /\ (~commands.allowed /\ commands.pc \in {"audit", "done"}) =>
       commands.replies = IF commands.platform = "tg" THEN <<"deny">> ELSE <<>>
  /\ commands.allowed => commands.replies = <<>>

TrimmedStartsWithSlash(text) ==
  \E i \in 1..Len(text) : text[i] = "/" /\ \A j \in 1..(i - 1) : text[j] = " "

\* C38: a message whose trimmed text starts with '/' is never relayed, whatever the
\* forward mode of its pair: the call of a QQ command enqueues no send to Telegram, and
\* a Telegram command is never handed to the TG -> QQ handler
C38_CommandsNeverForwarded ==
  /\ \A c \in 1..Len(calls) :
       TrimmedStartsWithSlash(calls[c].msg.text) =>
         /\ calls[c].task = 0 /\ calls[c].pc \in {"done"}
         /\ calls[c].outcome \in {"command", "duplicate"}
         /\ \A k \in 1..Len(tasks) : tasks[k].call # c
  /\ \A t \in 1..Len(tgCalls) :
       TrimmedStartsWithSlash(tgCalls[t].msg.text) =>
         tgCalls[t].pc # "handler" /\ tgCalls[t].outcome # "handed"

\* with both directions enabled a QQ command written after a space and a Telegram command
\* of the bound chat were both skipped
C38_Witness ==
  /\ env_FORWARD_MODE = <<"1", "1">>
  /\ \E c \in 1..Len(calls) :
       /\ calls[c].msg.text = <<" ", "/", "m">> /\ calls[c].msg.room = "r1"
       /\ calls[c].outcome = "command" /\ calls[c].published
  /\ \E t \in 1..Len(tgCalls) :
       /\ tgCalls[t].msg.text = <<" ", "/", "m", " ">> /\ tgCalls[t].room = "r1"
       /\ tgCalls[t].pc = "done" /\ tgCalls[t].outcome = "command"

(* ---- the lookups of Telegram sender names ---- *)
\* the lookups of the key that are pending
PendingLookups(cacheKey) ==
  {p \in 1..Len(tgSenders.lookups) :
     tgSenders.lookups[p].key = cacheKey /\ tgSenders.lookups[p].pending}

\* C39: for each (instance, sender) key resolveTgSenderName has at most one lookup in
\* flight and concurrent callers share it; the in-flight entry exists only while that
\* lookup is pending, and a call made after the cached value has expired starts a fresh
\* lookup instead of receiving an old result
C39_OneLookupInFlight ==
  /\ \A cacheKey \in SenderKeys :
       /\ Cardinality(PendingLookups(cacheKey)) <= 1
       /\ Inflight(cacheKey) # 0 => PendingLookups(cacheKey) = {Inflight(cacheKey)}
  /\ \A c \in 1..Len(tgSenders.calls) :
       LET call == tgSenders.calls[c]
       IN call.cached = NotFound => (call.task # 0 \/ call.shared)

(* ---- consumer ---- *)
RECURSIVE UpTo(_)
UpTo(n) == IF n = 0 THEN <<>> ELSE Append(UpTo(n - 1), n)

QueuedIds(queue) == [i \in 1..Len(queue) |-> queue[i].id]

\* C40: the function returned by consumer(fn, time) runs the queued calls in FIFO
\* order, each exactly once; a consumer without a timer holds no queued call, as the first
\* call of an idle consumer runs immediately; and every interval whose tick has found the
\* queue empty has been cleared
C40_ConsumerFifoAndTimerCleared ==
  /\ consumerState.ran \o QueuedIds(consumerState.tasks) = UpTo(consumerState.n)
  /\ consumerState.timer = NoTimer => consumerState.tasks = <<>>
  /\ \A t \in consumerState.emptyTicks : t \notin consumerState.intervals

====
